---- MODULE Spec2Model ----
(***************************************************************************)
(* A model of the peanut template store (src/src/template.rs and its       *)
(* submodules): the node arena, the add operations, the path resolver, the *)
(* leaf editors and the evaluator.                                         *)
(*                                                                         *)
(* Strings are sequences of one-character strings, so that split_once, the *)
(* separator test and concatenation are computed, not assumed.             *)
(* Option<T> is a sequence of length 0 (None) or 1 (Some).                 *)
(***************************************************************************)
EXTENDS Integers, Sequences, FiniteSets, TLC

\* overflow_checks is the build the store runs in: TRUE when integer overflow
\* panics (the dev profile), FALSE when it wraps (the release profile)
VARIABLES nodes, next_id, ret, overflow_checks

vars == <<nodes, next_id, ret, overflow_checks>>

(***************************************************************************)
(* Bounds of the model.                                                    *)
(***************************************************************************)
\* the largest identity the model lets new_id hand out
MaxId == 4
\* the largest integer literal offered to set_value and MetaHandle::set_value
MaxInt == 1
\* the largest number of segments in a path offered to get_node_from
MaxSegments == 3
\* the width of Integer in bits, scaled down from the 64 of isize
IntBits == 6

(***************************************************************************)
(* Strings and options.                                                    *)
(***************************************************************************)
None == <<>>
Some(x) == <<x>>
IsSome(o) == Len(o) = 1
Unwrap(o) == o[1]

SEP == "."
COMMON_INNER == <<"[", "C", "O", "M", "M", "O", "N", " ", "I", "N", "N", "E", "R", "]">>
THE_MOTHER == <<"[", "T", "H", "E", " ", "M", "O", "T", "H", "E", "R", "]">>

\* str.contains('.')
Contains(s, c) == \E i \in 1..Len(s) : s[i] = c

\* the index of the last separator of a string that contains one
LastSep(s) == CHOOSE i \in 1..Len(s) : s[i] = SEP /\ \A j \in (i + 1)..Len(s) : s[j] # SEP

\* the index of the first separator of a string that contains one
FirstSep(s) == CHOOSE i \in 1..Len(s) : s[i] = SEP /\ \A j \in 1..(i - 1) : s[j] # SEP

\* str.split_once("."): None, or Some of the text before and after the first separator
split_once(s) ==
    IF Contains(s, SEP)
    THEN Some([head |-> SubSeq(s, 1, FirstSep(s) - 1),
               rest |-> SubSeq(s, FirstSep(s) + 1, Len(s))])
    ELSE None

\* the elements of a Vec
Range(seq) == {seq[i] : i \in 1..Len(seq)}

\* Vec::contains
VecContains(v, x) == \E i \in 1..Len(v) : v[i] = x

(***************************************************************************)
(* Values and expressions (template/leaf.rs).                              *)
(***************************************************************************)
IntegerV(n) == [kind |-> "Integer", int |-> n, str |-> <<>>, list |-> <<>>]
StringV(s) == [kind |-> "String", int |-> 0, str |-> s, list |-> <<>>]
ListV(l) == [kind |-> "List", int |-> 0, str |-> <<>>, list |-> l]

Literal(v) == [tag |-> "Literal", value |-> v]
Reference(id) == [tag |-> "Reference", id |-> id]
IdentRef(id) == [tag |-> "IdentRef", id |-> id]
InfixOp(lhs, rhs, kind) == [tag |-> "InfixOp", lhs |-> lhs, rhs |-> rhs, kind |-> kind]

\* impl From<&Value> for ValueKind
ValueKindOf(v) == v.kind

(***************************************************************************)
(* Nodes (template.rs).  nodes maps an identity to [node, name].           *)
(***************************************************************************)
Leaf(id, parent, deferred) ==
    [tag |-> "Leaf", id |-> id, value_kind |-> "Undefined", value |-> None,
     cached |-> None, cache_valid |-> FALSE, deferred |-> deferred,
     parent |-> Some(parent), metadata |-> <<>>,
     dependencies |-> <<>>, dependents |-> <<>>]

Group(id, parent) ==
    [tag |-> "Group", id |-> id, children |-> <<>>, parent |-> parent,
     metadata |-> <<>>, common |-> None]

Meta(id, parent, data) ==
    [tag |-> "Meta", id |-> id, parent |-> parent, data |-> data,
     cached |-> None, cache_valid |-> FALSE]

Common(inner) == [tag |-> "Common", inner |-> inner]
Sum(elements) == [tag |-> "Sum", elements |-> elements]
Ident == [tag |-> "Ident"]
Concat(elements) == [tag |-> "Concat", elements |-> elements]
Constraint(c) == [tag |-> "Constraint", constraint |-> c]

Entry(node, name) == [node |-> node, name |-> name]

Exists(self, id) == id \in DOMAIN self
IsLeaf(self, id) == Exists(self, id) /\ self[id].node.tag = "Leaf"
IsGroup(self, id) == Exists(self, id) /\ self[id].node.tag = "Group"
IsMeta(self, id) == Exists(self, id) /\ self[id].node.tag = "Meta"
LeavesOf(self) == {i \in DOMAIN self : IsLeaf(self, i)}
GroupsOf(self) == {i \in DOMAIN self : IsGroup(self, i)}
MetasOf(self) == {i \in DOMAIN self : IsMeta(self, i)}
IsCommon(self, id) == IsMeta(self, id) /\ self[id].node.data.tag = "Common"

\* HashMap::insert
Insert(self, id, entry) == [i \in (DOMAIN self) \cup {id} |-> IF i = id THEN entry ELSE self[i]]

\* the store with one field of node id replaced
WithField(self, id, f, x) ==
    [self EXCEPT ![id] = [@ EXCEPT !.node = [@ EXCEPT ![f] = x]]]

(***************************************************************************)
(* Results.                                                                *)
(***************************************************************************)
NoValue == [kind |-> "None", int |-> 0, str |-> <<>>, list |-> <<>>]
NoErr == [kind |-> "None", id |-> None, path |-> <<>>]
Err0(kind) == [kind |-> kind, id |-> None, path |-> <<>>]
ErrId(kind, id) == [kind |-> kind, id |-> Some(id), path |-> <<>>]
ErrPath(kind, path) == [kind |-> kind, id |-> None, path |-> path]

(***************************************************************************)
(* The path resolver.                                                      *)
(***************************************************************************)
\* find_map looking at the first identity of the list only
find_map_head_only(self, ids, name) ==
    IF ids = <<>> THEN None
    ELSE IF Exists(self, Head(ids)) /\ self[Head(ids)].name = name THEN Some(Head(ids))
    ELSE None

\* iter().find_map(finder): the first identity of ids whose node carries name
RECURSIVE find_map(_, _, _)
find_map(self, ids, name) ==
    IF ids = <<>> THEN None
    ELSE IF Exists(self, Head(ids)) /\ self[Head(ids)].name = name THEN Some(Head(ids))
    ELSE find_map(self, Tail(ids), name)

\* get_node_from searching only the children of a Group, not its metadata
RECURSIVE get_node_from_children_only(_, _, _)
get_node_from_children_only(self, path, parent) ==
    LET sp == split_once(path)
        last == ~IsSome(sp)
        name == IF last THEN path ELSE Unwrap(sp).head
        rest == IF last THEN path ELSE Unwrap(sp).rest
    IN  IF ~Exists(self, parent) THEN None
        ELSE LET p == self[parent].node IN
             IF p.tag = "Meta"
             THEN IF p.data.tag = "Common"
                  THEN get_node_from_children_only(self, rest, p.data.inner)
                  ELSE None
             ELSE LET found == IF p.tag = "Group"
                               THEN find_map(self, p.children, name)
                               ELSE find_map(self, p.metadata, name)
                  IN  IF ~IsSome(found) THEN None
                      ELSE IF last THEN found
                      ELSE get_node_from_children_only(self, rest, Unwrap(found))

RECURSIVE get_node_from(_, _, _)
get_node_from(self, path, parent) ==
    LET sp == split_once(path)
        last == ~IsSome(sp)
        name == IF last THEN path ELSE Unwrap(sp).head
        rest == IF last THEN path ELSE Unwrap(sp).rest
    IN  IF ~Exists(self, parent) THEN None
        ELSE LET p == self[parent].node IN
             IF p.tag = "Meta"
             THEN IF p.data.tag = "Common"
                  THEN get_node_from(self, rest, p.data.inner)
                  ELSE None
             ELSE LET found == IF p.tag = "Group"
                               THEN find_map(self, p.children \o p.metadata, name)
                               ELSE find_map(self, p.metadata, name)
                  IN  IF ~IsSome(found) THEN None
                      ELSE IF last THEN found
                      ELSE get_node_from(self, rest, Unwrap(found))

(***************************************************************************)
(* Typed lookup of NodeTree (the root, id 0, and Group handles): the node  *)
(* the path resolves to, kept only when it is of the kind asked for.  The  *)
(* Option is modelled by the identity of the node returned.  The match of  *)
(* NodeTree names the Leaf and the Group arm; a Meta falls to None as in   *)
(* MetaHandle::get_leaf and MetaHandle::get_group (`_ => None`).           *)
(***************************************************************************)
\* get_leaf without the match on the kind of the node
get_leaf_any_kind(self, path, id) ==
    LET found == get_node_from(self, path, id) IN
    IF ~IsSome(found) \/ ~Exists(self, Unwrap(found)) THEN None ELSE found

get_leaf(self, path, id) ==
    LET found == get_node_from(self, path, id) IN
    IF ~IsSome(found) \/ ~Exists(self, Unwrap(found)) THEN None
    ELSE IF IsLeaf(self, Unwrap(found)) THEN found
    ELSE None

get_group(self, path, id) ==
    LET found == get_node_from(self, path, id) IN
    IF ~IsSome(found) \/ ~Exists(self, Unwrap(found)) THEN None
    ELSE IF IsGroup(self, Unwrap(found)) THEN found
    ELSE None

verify_name(name) == ~Contains(name, SEP)

(***************************************************************************)
(* The add operations.  Each is a function of the store (self, next) and   *)
(* returns the store after the call with the call's result.                *)
(***************************************************************************)
AddOut(self, next, err, id) == [nodes |-> self, next_id |-> next, err |-> err, id |-> id]

\* new_id that does not advance next_id
new_id_stuck(next) == next

\* new_id: the identity handed out is next, and next_id becomes next + 1
new_id(next) == next + 1

\* add_child without the Leaf arm's error: a Leaf parent is accepted, nothing linked
add_child_accepting_leaf(self, parent, id) ==
    IF ~Exists(self, parent) THEN [err |-> Some("ParentNotExists"), nodes |-> self]
    ELSE LET p == self[parent].node IN
         CASE p.tag = "Group" ->
                [err |-> None, nodes |-> WithField(self, parent, "children", Append(p.children, id))]
           [] p.tag = "Leaf" -> [err |-> None, nodes |-> self]
           [] p.tag = "Meta" ->
                IF p.data.tag = "Common"
                THEN IF IsGroup(self, p.data.inner)
                     THEN [err |-> None,
                           nodes |-> WithField(self, p.data.inner, "metadata",
                                               Append(self[p.data.inner].node.metadata, id))]
                     ELSE [err |-> Some("InvalidParent"), nodes |-> self]
                ELSE [err |-> Some("ParentIsLeaf"), nodes |-> self]

\* add_child that reports Ok for a Group parent without pushing the identity
add_child_unlinked(self, parent, id) ==
    IF ~Exists(self, parent) THEN [err |-> Some("ParentNotExists"), nodes |-> self]
    ELSE LET p == self[parent].node IN
         CASE p.tag = "Group" -> [err |-> None, nodes |-> self]
           [] p.tag = "Leaf" -> [err |-> Some("ParentIsLeaf"), nodes |-> self]
           [] p.tag = "Meta" ->
                IF p.data.tag = "Common"
                THEN IF IsGroup(self, p.data.inner)
                     THEN [err |-> None,
                           nodes |-> WithField(self, p.data.inner, "metadata",
                                               Append(self[p.data.inner].node.metadata, id))]
                     ELSE [err |-> Some("InvalidParent"), nodes |-> self]
                ELSE [err |-> Some("ParentIsLeaf"), nodes |-> self]

\* add_child that reports every Meta parent without an inner Group as InvalidParent
add_child_invalid_parent(self, parent, id) ==
    IF ~Exists(self, parent) THEN [err |-> Some("ParentNotExists"), nodes |-> self]
    ELSE LET p == self[parent].node IN
         CASE p.tag = "Group" ->
                [err |-> None, nodes |-> WithField(self, parent, "children", Append(p.children, id))]
           [] p.tag = "Leaf" -> [err |-> Some("ParentIsLeaf"), nodes |-> self]
           [] p.tag = "Meta" ->
                IF p.data.tag = "Common" /\ IsGroup(self, p.data.inner)
                THEN [err |-> None,
                      nodes |-> WithField(self, p.data.inner, "metadata",
                                          Append(self[p.data.inner].node.metadata, id))]
                ELSE [err |-> Some("InvalidParent"), nodes |-> self]

\* add_child that reports Ok for a Common parent without pushing the identity
add_child_common_unlinked(self, parent, id) ==
    IF ~Exists(self, parent) THEN [err |-> Some("ParentNotExists"), nodes |-> self]
    ELSE LET p == self[parent].node IN
         CASE p.tag = "Group" ->
                [err |-> None, nodes |-> WithField(self, parent, "children", Append(p.children, id))]
           [] p.tag = "Leaf" -> [err |-> Some("ParentIsLeaf"), nodes |-> self]
           [] p.tag = "Meta" ->
                IF p.data.tag = "Common"
                THEN IF IsGroup(self, p.data.inner)
                     THEN [err |-> None, nodes |-> self]
                     ELSE [err |-> Some("InvalidParent"), nodes |-> self]
                ELSE [err |-> Some("ParentIsLeaf"), nodes |-> self]

\* add_child: Ok with the store after the push, or the error (store untouched)
add_child(self, parent, id) ==
    IF ~Exists(self, parent) THEN [err |-> Some("ParentNotExists"), nodes |-> self]
    ELSE LET p == self[parent].node IN
         CASE p.tag = "Group" ->
                [err |-> None, nodes |-> WithField(self, parent, "children", Append(p.children, id))]
           [] p.tag = "Leaf" -> [err |-> Some("ParentIsLeaf"), nodes |-> self]
           [] p.tag = "Meta" ->
                IF p.data.tag = "Common"
                THEN IF IsGroup(self, p.data.inner)
                     THEN [err |-> None,
                           nodes |-> WithField(self, p.data.inner, "metadata",
                                               Append(self[p.data.inner].node.metadata, id))]
                     ELSE [err |-> Some("InvalidParent"), nodes |-> self]
                ELSE [err |-> Some("ParentIsLeaf"), nodes |-> self]

add_leaf_to(self, next, name, parent, deferred) ==
    IF IsSome(get_node_from(self, name, parent)) THEN AddOut(self, next, Some("NameConflict"), None)
    ELSE IF ~verify_name(name) THEN AddOut(self, next, Some("InvalidName"), None)
    ELSE LET id == next
             linked == add_child(self, parent, id)
         IN  IF IsSome(linked.err) THEN AddOut(self, new_id(next), linked.err, None)
             ELSE AddOut(Insert(linked.nodes, id, Entry(Leaf(id, parent, deferred), name)),
                         new_id(next), None, Some(id))

add_group_to(self, next, name, parent) ==
    IF IsSome(get_node_from(self, name, parent)) THEN AddOut(self, next, Some("NameConflict"), None)
    ELSE IF ~verify_name(name) \/ name = COMMON_INNER THEN AddOut(self, next, Some("InvalidName"), None)
    ELSE LET id == next
             linked == add_child(self, parent, id)
         IN  IF IsSome(linked.err) THEN AddOut(self, new_id(next), linked.err, None)
             ELSE AddOut(Insert(linked.nodes, id, Entry(Group(id, Some(parent)), name)),
                         new_id(next), None, Some(id))

\* the payload a MetadataStart begins with; inner is the identity of the Common's group
StartData(start, inner) ==
    CASE start.tag = "Common" -> Common(inner)
      [] start.tag = "Sum" -> Sum(<<>>)
      [] start.tag = "Ident" -> Ident
      [] start.tag = "Concat" -> Concat(<<>>)
      [] start.tag = "Constraint" -> Constraint(start.constraint)

\* the second half of add_meta_to (from `let id = self.new_id()`): next is next_id
\* after the inner group's identity, if any, was taken; inner_group is that identity
add_meta_link(self, next, name, parent_id, data, inner_group) ==
    LET id == next
        next2 == new_id(next)
        finish(linked, meta_parent) ==
            LET withMeta == Insert(linked, id, Entry(Meta(id, meta_parent, data), name))
                withInner == IF IsSome(inner_group)
                             THEN Insert(withMeta, Unwrap(inner_group),
                                         Entry(Group(Unwrap(inner_group), Some(parent_id)), COMMON_INNER))
                             ELSE withMeta
            IN  AddOut(withInner, next2, None, Some(id))
    IN  IF ~Exists(self, parent_id) THEN AddOut(self, next2, Some("ParentNotExists"), None)
        ELSE LET p == self[parent_id].node IN
             CASE p.tag = "Group" ->
                    finish(WithField(self, parent_id, "metadata", Append(p.metadata, id)), id)
               [] p.tag = "Leaf" ->
                    finish(WithField(self, parent_id, "metadata", Append(p.metadata, id)), id)
               [] p.tag = "Meta" ->
                    IF p.data.tag = "Common"
                    THEN IF IsGroup(self, p.data.inner)
                         THEN finish(WithField(self, p.data.inner, "metadata",
                                               Append(self[p.data.inner].node.metadata, id)),
                                     p.data.inner)
                         ELSE AddOut(self, next2, Some("InvalidParent"), None)
                    ELSE AddOut(self, next2, Some("ParentIsLeaf"), None)

add_meta_to(self, next, name, parent_id, start) ==
    IF IsSome(get_node_from(self, name, parent_id)) THEN AddOut(self, next, Some("NameConflict"), None)
    ELSE IF ~verify_name(name) THEN AddOut(self, next, Some("InvalidName"), None)
    ELSE IF start.tag = "Common"
         THEN IF ~IsGroup(self, parent_id) THEN AddOut(self, next, Some("InvalidParent"), None)
              ELSE IF self[parent_id].node.common # None
                   THEN AddOut(self, next, Some("InvalidParent"), None)
              ELSE add_meta_link(self, new_id(next), name, parent_id, StartData(start, next), Some(next))
         ELSE add_meta_link(self, next, name, parent_id, StartData(start, next), None)

\* MetaHandle::check_common
check_common(self, id) ==
    IF IsMeta(self, id) /\ self[id].node.data.tag = "Common" THEN Some(self[id].node.data.inner) ELSE None

\* MetaHandle::add_leaf and MetaHandle::add_group
MetaHandle_add_leaf(self, next, id, name, deferred) ==
    IF IsSome(check_common(self, id))
    THEN add_leaf_to(self, next, name, Unwrap(check_common(self, id)), deferred)
    ELSE AddOut(self, next, Some("InvalidParent"), None)

MetaHandle_add_group(self, next, id, name) ==
    IF IsSome(check_common(self, id))
    THEN add_group_to(self, next, name, Unwrap(check_common(self, id)))
    ELSE AddOut(self, next, Some("InvalidParent"), None)

(***************************************************************************)
(* The leaf editors.                                                       *)
(***************************************************************************)
\* impl From<&InfixOp> for ValueKind
InfixOpKindOf(op) == "Integer"

check_expr_type(self, expr) ==
    CASE expr.tag = "Literal" -> ValueKindOf(expr.value)
      [] expr.tag = "Reference" ->
            IF IsLeaf(self, expr.id) THEN self[expr.id].node.value_kind ELSE "Undefined"
      [] expr.tag = "IdentRef" -> "String"
      [] expr.tag = "InfixOp" -> InfixOpKindOf(expr)

EditOut(self, err) == [nodes |-> self, err |-> err]

\* the two assignments, with the cache invalidated as well
StoreExprInvalidating(self, id, value_kind, expr) ==
    WithField(WithField(WithField(self, id, "value_kind", value_kind), id, "value", Some(expr)),
              id, "cache_valid", FALSE)

\* the two assignments, with the Leaf's parent cleared as well
StoreExprOrphaning(self, id, value_kind, expr) ==
    WithField(WithField(WithField(self, id, "value_kind", value_kind), id, "value", Some(expr)),
              id, "parent", None)

\* the two assignments both editors end with
StoreExpr(self, id, value_kind, expr) ==
    WithField(WithField(self, id, "value_kind", value_kind), id, "value", Some(expr))

\* Integer n is outside what Constraint c allows
Violates(c, n) ==
    CASE c.op = "GreaterThan" -> ~(n > c.bound)
      [] c.op = "GreaterOrEqual" -> ~(n >= c.bound)
      [] c.op = "LessThan" -> ~(n < c.bound)
      [] c.op = "LessOrEqual" -> ~(n <= c.bound)
      [] c.op = "Equal" -> ~(n = c.bound)

\* the Constraints attached to a Leaf
ConstraintsOn(self, id) ==
    {self[m].node.data.constraint :
        m \in {x \in Range(self[id].node.metadata) :
                  IsMeta(self, x) /\ self[x].node.data.tag = "Constraint"}}

\* set_leaf_value that drops an Integer a Constraint of the Leaf does not allow
set_leaf_value_enforcing(self, id, value) ==
    IF ~Exists(self, id) THEN EditOut(self, Some("NotExists"))
    ELSE IF ~IsLeaf(self, id) THEN EditOut(self, Some("NotLeaf"))
    ELSE IF value.kind = "Integer" /\ \E c \in ConstraintsOn(self, id) : Violates(c, value.int)
         THEN EditOut(self, None)
    ELSE EditOut(StoreExpr(self, id, ValueKindOf(value), Literal(value)), None)

\* set_leaf_value that records the kind of the value but not the value
set_leaf_value_kind_only(self, id, value) ==
    IF ~Exists(self, id) THEN EditOut(self, Some("NotExists"))
    ELSE IF ~IsLeaf(self, id) THEN EditOut(self, Some("NotLeaf"))
    ELSE EditOut(WithField(self, id, "value_kind", ValueKindOf(value)), None)

set_leaf_value(self, id, value) ==
    IF ~Exists(self, id) THEN EditOut(self, Some("NotExists"))
    ELSE IF ~IsLeaf(self, id) THEN EditOut(self, Some("NotLeaf"))
    ELSE EditOut(StoreExpr(self, id, ValueKindOf(value), Literal(value)), None)

\* set_leaf_expr that takes every node that is not a Leaf for a missing one
set_leaf_expr_not_exists(self, id, expr) ==
    IF ~IsLeaf(self, id) THEN EditOut(self, Some("NotExists"))
    ELSE EditOut(StoreExpr(self, id, check_expr_type(self, expr), expr), None)

set_leaf_expr(self, id, expr) ==
    IF ~Exists(self, id) THEN EditOut(self, Some("NotExists"))
    ELSE IF ~IsLeaf(self, id) THEN EditOut(self, Some("NotLeaf"))
    ELSE EditOut(StoreExpr(self, id, check_expr_type(self, expr), expr), None)

\* MetaHandle::set_value: the unwrap panics when the handle names no Meta
MetaHandle_set_value(self, id, value) ==
    IF ~IsMeta(self, id) THEN [nodes |-> self, status |-> "Abort", err |-> "unwrap on None"]
    ELSE IF self[id].node.data.tag = value.tag /\ value.tag \in {"Sum", "Concat", "Constraint"}
         THEN [nodes |-> WithField(self, id, "data", value), status |-> "Ok", err |-> ""]
         ELSE [nodes |-> self, status |-> "Err", err |-> "WrongKind"]

(***************************************************************************)
(* The evaluator.  A call returns Ok(value) or Err(error), or does not     *)
(* return: Abort is the process ending (a panic, or the stack overflowing),*)
(* Hang is a loop that never exits.                                        *)
(*                                                                         *)
(* The store is borrowed immutably during an evaluation and `checked` is   *)
(* never pushed to, so a call of eval_leaf_inner for an identity that is   *)
(* already on the active call chain repeats itself without end: chain, the *)
(* set of identities with a call on the machine stack, decides that case.  *)
(***************************************************************************)
Ok(v) == [tag |-> "Ok", value |-> v, err |-> NoErr, updates |-> <<>>]
Err(e) == [tag |-> "Err", value |-> NoValue, err |-> e, updates |-> <<>>]
Abort(why) == [tag |-> "Abort", value |-> NoValue, err |-> Err0(why), updates |-> <<>>]
Hang == [tag |-> "Hang", value |-> NoValue, err |-> NoErr, updates |-> <<>>]

\* the range of Integer, and the two's complement value an overflowing result wraps to
INT_MIN == -(2 ^ (IntBits - 1))
INT_MAX == (2 ^ (IntBits - 1)) - 1
InRange(n) == INT_MIN <= n /\ n <= INT_MAX
Wrap(n) == ((n - INT_MIN) % (2 ^ IntBits)) + INT_MIN

\* the result n of +, - or * on Integers: a panic when it overflows in a build
\* with overflow checks, the wrapped value in a build without
Checked(n, panic) ==
    IF InRange(n) THEN Ok(IntegerV(n))
    ELSE IF overflow_checks THEN Abort(panic)
    ELSE Ok(IntegerV(Wrap(n)))

\* division rounding toward negative infinity
FloorDiv(a, b) == IF b > 0 THEN a \div b ELSE (-a) \div (-b)

\* Rust's integer division truncates toward zero
TruncDiv(a, b) ==
    IF (a >= 0) = (b >= 0)
    THEN (IF a >= 0 THEN a ELSE -a) \div (IF b >= 0 THEN b ELSE -b)
    ELSE -((IF a >= 0 THEN a ELSE -a) \div (IF b >= 0 THEN b ELSE -b))

\* the inner match of InfixOp::eval on two Integers
Arith(kind, lhs, rhs) ==
    CASE kind = "Add" -> Checked(lhs + rhs, "attempt to add with overflow")
      [] kind = "Sub" -> Checked(lhs - rhs, "attempt to subtract with overflow")
      [] kind = "Div" -> IF rhs = 0 THEN Abort("attempt to divide by zero")
                         ELSE IF lhs = INT_MIN /\ rhs = -1
                              THEN Abort("attempt to divide with overflow")
                         ELSE Ok(IntegerV(TruncDiv(lhs, rhs)))
      [] kind = "Mul" -> Checked(lhs * rhs, "attempt to multiply with overflow")
      [] kind = "Pow" -> Checked(lhs * rhs, "attempt to multiply with overflow")

\* iter().sum(): the fold of + from 0, acc the sum so far
RECURSIVE SumOf(_, _)
SumOf(acc, xs) ==
    IF xs = <<>> THEN Ok(IntegerV(acc))
    ELSE IF ~InRange(acc + Head(xs)) /\ overflow_checks THEN Abort("attempt to add with overflow")
    ELSE SumOf(Wrap(acc + Head(xs)), Tail(xs))

\* the loop of the Ident arm: next is the entry looked at, seen the entries
\* the loop has already looked at (the store does not change, so a second look
\* at an entry means the loop never exits)
RECURSIVE ident_loop(_, _, _)
ident_loop(self, next, seen) ==
    LET e == self[next] IN
    IF next \in seen THEN Hang
    ELSE IF e.node.tag = "Meta"
         THEN IF Exists(self, e.node.parent)
              THEN ident_loop(self, e.node.parent, seen \cup {next})
              ELSE Err(ErrId("MissingParent", e.node.id))
    ELSE IF e.node.tag = "Group" /\ e.name = COMMON_INNER
         THEN IF ~IsSome(e.node.parent) THEN Abort("unwrap on None")
              ELSE IF Exists(self, Unwrap(e.node.parent))
                   THEN ident_loop(self, Unwrap(e.node.parent), seen \cup {next})
                   ELSE Err(ErrId("MissingParent", e.node.id))
    ELSE Ok(StringV(e.name))

MetaStatus(status, res) == [status |-> status, res |-> res]

\* updates.push((id, out.clone())) after the `?` on out
Pushed(out, updates, id) ==
    IF out.tag = "Ok"
    THEN [out EXCEPT !.updates = Append(updates, [id |-> id, value |-> out.value])]
    ELSE out

\* .map(|(value, _)| value): the callee's updates are dropped
Value(out) == [out EXCEPT !.updates = <<>>]

\* the Ident arm of eval_leaf_inner: the loop starts at the meta's parent
IdentArm(self, meta) ==
    IF Exists(self, meta.parent)
    THEN ident_loop(self, meta.parent, {})
    ELSE Err(ErrId("MissingParent", meta.id))

\* the match reporting a meta without a value as InvalidType
MetaArmInvalidType(id, updates, st, ident) ==
    CASE st.status = "Success" -> Pushed(st.res, updates, id)
      [] st.status = "Ident" -> Pushed(ident, updates, id)
      [] st.status = "WrongType" -> Err(Err0("InvalidType"))
      [] st.status = "InvalidConcatElement" -> Err(Err0("InvalidType"))
      [] st.status = "InternalEvalError" -> st.res

\* the match on eval_meta_inner's status in eval_leaf_inner
MetaArm(id, updates, st, ident) ==
    CASE st.status = "Success" -> Pushed(st.res, updates, id)
      [] st.status = "Ident" -> Pushed(ident, updates, id)
      [] st.status = "WrongType" -> Err(ErrId("MetaType", id))
      [] st.status = "InvalidConcatElement" -> Err(Err0("InvalidType"))
      [] st.status = "InternalEvalError" -> st.res

\* the match of InfixOp::eval with the operands taken in the other order
InfixArmSwapped(kind, lhs, rhs) ==
    IF lhs.tag # "Ok" THEN lhs
    ELSE IF rhs.tag # "Ok" THEN rhs
    ELSE IF lhs.value.kind = "Integer" /\ rhs.value.kind = "Integer"
         THEN Arith(kind, rhs.value.int, lhs.value.int)
         ELSE Err(Err0("InvalidType"))

\* the match of InfixOp::eval on the two operands, lhs first
InfixArm(kind, lhs, rhs) ==
    IF lhs.tag # "Ok" THEN lhs
    ELSE IF rhs.tag # "Ok" THEN rhs
    ELSE IF lhs.value.kind = "Integer" /\ rhs.value.kind = "Integer"
         THEN Arith(kind, lhs.value.int, rhs.value.int)
         ELSE Err(Err0("InvalidType"))

RECURSIVE eval_leaf_inner(_, _, _, _, _)
RECURSIVE eval_expr_inner(_, _, _, _)
RECURSIVE IdentRefArm(_, _, _, _, _)
RECURSIVE eval_expr(_, _, _)
RECURSIVE InfixOp_eval(_, _, _)
RECURSIVE eval_meta_inner(_, _, _, _)
RECURSIVE concat_meta(_, _, _, _, _)
RECURSIVE ConcatArm(_, _, _, _, _, _)

eval_leaf_inner(self, id, checked, updates, chain) ==
    IF VecContains(checked, id) THEN Err(ErrId("InfiniteRecursion", id))
    ELSE IF id \in chain THEN Abort("stack overflow")
    ELSE IF ~Exists(self, id) THEN Err(ErrId("MissingDependency", id))
    ELSE CASE self[id].node.tag = "Leaf" ->
                IF self[id].node.cache_valid /\ IsSome(self[id].node.cached)
                THEN [Ok(Unwrap(self[id].node.cached)) EXCEPT !.updates = updates]
                ELSE IF IsSome(self[id].node.value)
                     THEN Pushed(eval_expr_inner(self, Unwrap(self[id].node.value), checked,
                                                 chain \cup {id}),
                                 updates, id)
                     ELSE Err(ErrId("MissingInfo", id))
           [] self[id].node.tag = "Group" -> Err(ErrId("NotALeaf", id))
           [] self[id].node.tag = "Meta" ->
                IF self[id].node.cache_valid /\ IsSome(self[id].node.cached)
                THEN [Ok(Unwrap(self[id].node.cached)) EXCEPT !.updates = updates]
                ELSE MetaArm(id, updates,
                             eval_meta_inner(self, self[id].node.data, checked, chain \cup {id}),
                             IdentArm(self, self[id].node))

eval_expr_inner(self, expr, checked, chain) ==
    CASE expr.tag = "Literal" -> Ok(expr.value)
      [] expr.tag = "Reference" -> Value(eval_leaf_inner(self, expr.id, checked, <<>>, chain))
      [] expr.tag = "IdentRef" ->
            IdentRefArm(self, expr.id, Value(eval_leaf_inner(self, expr.id, checked, <<>>, chain)),
                        checked, chain)
      [] expr.tag = "InfixOp" -> InfixOp_eval(self, expr, chain)

\* the IdentRef arm returning the referenced node's own value, path unresolved
IdentRefArmSingleLevel(self, ref_id, referenced_path, checked, chain) ==
    IF referenced_path.tag # "Ok" THEN referenced_path
    ELSE IF referenced_path.value.kind = "String"
         THEN IF IsSome(get_node_from(self, referenced_path.value.str, 0))
              THEN referenced_path
              ELSE Err(ErrPath("MissingPathDependency", referenced_path.value.str))
         ELSE Err(ErrId("InvalidIdentRef", ref_id))

\* the IdentRef arm of eval_expr_inner, once the referenced node is evaluated
IdentRefArm(self, ref_id, referenced_path, checked, chain) ==
    IF referenced_path.tag # "Ok" THEN referenced_path
    ELSE IF referenced_path.value.kind = "String"
         THEN IF IsSome(get_node_from(self, referenced_path.value.str, 0))
              THEN Value(eval_leaf_inner(self, Unwrap(get_node_from(self, referenced_path.value.str, 0)),
                                         checked, <<>>, chain))
              ELSE Err(ErrPath("MissingPathDependency", referenced_path.value.str))
         ELSE Err(ErrId("InvalidIdentRef", ref_id))

\* Template::eval_expr: a new, empty checked
eval_expr(self, expr, chain) == eval_expr_inner(self, expr, <<>>, chain)

InfixOp_eval(self, op, chain) ==
    IF op.kind \in {"Add", "Sub", "Div", "Mul", "Pow"}
    THEN InfixArm(op.kind, eval_expr(self, op.lhs, chain), eval_expr(self, op.rhs, chain))
    ELSE Abort("unreachable: That's not an infix operator")

eval_meta_inner(self, meta, checked, chain) ==
    CASE meta.tag = "Common" -> MetaStatus("WrongType", Ok(NoValue))
      [] meta.tag = "Sum" -> MetaStatus("Success", SumOf(0, meta.elements))
      [] meta.tag = "Ident" -> MetaStatus("Ident", Ok(NoValue))
      [] meta.tag = "Concat" -> concat_meta(self, meta.elements, checked, chain, <<>>)
      [] meta.tag = "Constraint" -> MetaStatus("WrongType", Ok(NoValue))

\* the loop of concat_meta over the elements still to evaluate; out is the
\* concatenation so far
concat_meta(self, elements, checked, chain, out) ==
    IF elements = <<>> THEN MetaStatus("Success", Ok(StringV(out)))
    ELSE ConcatArm(self, Tail(elements), checked, chain, out,
                   eval_expr_inner(self, Head(elements), checked, chain))

\* the body of the loop pushing the element's string in front of the others
ConcatArmPrepending(self, others, checked, chain, out, r) ==
    IF r.tag = "Ok"
    THEN IF r.value.kind = "String"
         THEN concat_meta(self, others, checked, chain, r.value.str \o out)
         ELSE MetaStatus("InvalidConcatElement", Ok(NoValue))
    ELSE MetaStatus("InternalEvalError", r)

\* the body of the loop, once the element is evaluated
ConcatArm(self, others, checked, chain, out, r) ==
    IF r.tag = "Ok"
    THEN IF r.value.kind = "String"
         THEN concat_meta(self, others, checked, chain, out \o r.value.str)
         ELSE MetaStatus("InvalidConcatElement", Ok(NoValue))
    ELSE MetaStatus("InternalEvalError", r)

\* the caching assignments, with the Leaf's value_kind set to the kind of the value
CacheRecordingKind(self, id, value) ==
    IF IsLeaf(self, id)
    THEN WithField(WithField(WithField(self, id, "cached", Some(value)), id, "cache_valid", TRUE),
                   id, "value_kind", ValueKindOf(value))
    ELSE self

\* leaf.cached = Some(value); leaf.cache_valid = true, when id names a Leaf
Cache(self, id, value) ==
    IF IsLeaf(self, id)
    THEN WithField(WithField(self, id, "cached", Some(value)), id, "cache_valid", TRUE)
    ELSE self

\* the caching loop of eval_leaf
RECURSIVE ApplyUpdates(_, _)
ApplyUpdates(self, updates) ==
    IF updates = <<>> THEN self
    ELSE ApplyUpdates(Cache(self, Head(updates).id, Head(updates).value), Tail(updates))

\* eval_leaf, once eval_leaf_inner has returned out
EvalOut(self, id, out) ==
    IF out.tag = "Ok"
    THEN [nodes |-> ApplyUpdates(Cache(self, id, out.value), out.updates), res |-> out]
    ELSE [nodes |-> self, res |-> out]

eval_leaf(self, id) == EvalOut(self, id, eval_leaf_inner(self, id, <<>>, <<>>, {}))

(***************************************************************************)
(* The state machine: one action per call on the store.  ret is the last   *)
(* call and what it returned (for set_leaf_value, ret.value is the value   *)
(* passed in).                                                             *)
(***************************************************************************)
Ret(op, name, target, status, err, id, value) ==
    [op |-> op, name |-> name, target |-> target, status |-> status,
     err |-> err, id |-> id, value |-> value]

AddRet(op, name, parent, o) ==
    IF IsSome(o.err)
    THEN Ret(op, name, parent, "Err", Err0(Unwrap(o.err)), None, NoValue)
    ELSE Ret(op, name, parent, "Ok", NoErr, o.id, NoValue)

EditRet(op, id, o) ==
    IF IsSome(o.err)
    THEN Ret(op, <<>>, id, "Err", Err0(Unwrap(o.err)), None, NoValue)
    ELSE Ret(op, <<>>, id, "Ok", NoErr, None, NoValue)

\* no call is made after one that did not return
Running == ret.status \notin {"Abort", "Hang"}

Init ==
    /\ nodes = Insert(<<>>, 0, Entry(Group(0, None), THE_MOTHER))
    /\ next_id = 1
    /\ ret = Ret("new", <<>>, 0, "Ok", NoErr, None, NoValue)
    /\ overflow_checks \in BOOLEAN

AddLeafTo(name, parent, deferred) ==
    /\ Running
    /\ next_id <= MaxId
    /\ LET o == add_leaf_to(nodes, next_id, name, parent, deferred) IN
       /\ nodes' = o.nodes
       /\ next_id' = o.next_id
       /\ ret' = AddRet("add_leaf_to", name, parent, o)
    /\ UNCHANGED overflow_checks

AddGroupTo(name, parent) ==
    /\ Running
    /\ next_id <= MaxId
    /\ LET o == add_group_to(nodes, next_id, name, parent) IN
       /\ nodes' = o.nodes
       /\ next_id' = o.next_id
       /\ ret' = AddRet("add_group_to", name, parent, o)
    /\ UNCHANGED overflow_checks

AddMetaTo(name, parent, start) ==
    /\ Running
    /\ next_id + (IF start.tag = "Common" THEN 1 ELSE 0) <= MaxId
    /\ LET o == add_meta_to(nodes, next_id, name, parent, start) IN
       /\ nodes' = o.nodes
       /\ next_id' = o.next_id
       /\ ret' = AddRet("add_meta_to", name, parent, o)
    /\ UNCHANGED overflow_checks

MetaAddLeaf(name, id, deferred) ==
    /\ Running
    /\ next_id <= MaxId
    /\ LET o == MetaHandle_add_leaf(nodes, next_id, id, name, deferred) IN
       /\ nodes' = o.nodes
       /\ next_id' = o.next_id
       /\ ret' = AddRet("MetaHandle::add_leaf", name, id, o)
    /\ UNCHANGED overflow_checks

MetaAddGroup(name, id) ==
    /\ Running
    /\ next_id <= MaxId
    /\ LET o == MetaHandle_add_group(nodes, next_id, id, name) IN
       /\ nodes' = o.nodes
       /\ next_id' = o.next_id
       /\ ret' = AddRet("MetaHandle::add_group", name, id, o)
    /\ UNCHANGED overflow_checks

SetLeafValue(id, value) ==
    /\ Running
    /\ LET o == set_leaf_value(nodes, id, value) IN
       /\ nodes' = o.nodes
       /\ ret' = [EditRet("set_leaf_value", id, o) EXCEPT !.value = value]
    /\ UNCHANGED <<next_id, overflow_checks>>

SetLeafExpr(id, expr) ==
    /\ Running
    /\ LET o == set_leaf_expr(nodes, id, expr) IN
       /\ nodes' = o.nodes
       /\ ret' = EditRet("set_leaf_expr", id, o)
    /\ UNCHANGED <<next_id, overflow_checks>>

MetaSetValue(id, value) ==
    /\ Running
    /\ LET o == MetaHandle_set_value(nodes, id, value) IN
       /\ nodes' = o.nodes
       /\ ret' = Ret("MetaHandle::set_value", <<>>, id, o.status,
                     IF o.status = "Ok" THEN NoErr ELSE Err0(o.err), None, NoValue)
    /\ UNCHANGED <<next_id, overflow_checks>>

\* get_node_from called by the owner of the store: ret.id is the Option returned
GetNodeFrom(path, parent) ==
    /\ Running
    /\ ret' = Ret("get_node_from", path, parent, "Ok", NoErr, get_node_from(nodes, path, parent), NoValue)
    /\ UNCHANGED <<nodes, next_id, overflow_checks>>

\* NodeTree::get_leaf on the handle of node id: ret.id is the Option returned
GetLeaf(path, id) ==
    /\ Running
    /\ ret' = Ret("get_leaf", path, id, "Ok", NoErr, get_leaf(nodes, path, id), NoValue)
    /\ UNCHANGED <<nodes, next_id, overflow_checks>>

\* NodeTree::get_group on the handle of node id: ret.id is the Option returned
GetGroup(path, id) ==
    /\ Running
    /\ ret' = Ret("get_group", path, id, "Ok", NoErr, get_group(nodes, path, id), NoValue)
    /\ UNCHANGED <<nodes, next_id, overflow_checks>>

EvalRet(id, res) == Ret("eval_leaf", <<>>, id, res.tag, res.err, None, res.value)

EvalLeaf(id) ==
    /\ Running
    /\ LET o == eval_leaf(nodes, id) IN
       /\ nodes' = o.nodes
       /\ ret' = EvalRet(id, o.res)
    /\ UNCHANGED <<next_id, overflow_checks>>

(***************************************************************************)
(* Spec: the store under construction.  Every add operation, with valid    *)
(* and invalid names, and with parents of every kind and unknown parents.  *)
(***************************************************************************)
Names == {<<"a">>, <<"a", ".", "a">>, COMMON_INNER}
Deferreds == {FALSE}
Starts == {[tag |-> t] : t \in {"Common", "Sum"}}

Next ==
    \/ \E name \in Names, parent \in 0..next_id, deferred \in Deferreds :
          AddLeafTo(name, parent, deferred)
    \/ \E name \in Names, parent \in 0..next_id : AddGroupTo(name, parent)
    \/ \E name \in Names, parent \in 0..next_id, start \in Starts : AddMetaTo(name, parent, start)

Spec == Init /\ [][Next]_vars

(***************************************************************************)
(* SpecLeaf: leaves under the root, edited and evaluated.                  *)
(***************************************************************************)
LeafNames == {<<"a">>, <<"b">>}
Values == {IntegerV(n) : n \in 1..MaxInt} \cup {StringV(<<"a">>)}
\* the identities the leaves get: none is lost to a failed add under the root
LeafIds == 1..Cardinality(LeafNames)
LeafExprs == {Reference(i) : i \in LeafIds} \cup {IdentRef(i) : i \in LeafIds}

NextLeaf ==
    \/ \E name \in LeafNames : AddLeafTo(name, 0, FALSE)
    \/ \E id \in 0..next_id, value \in Values : SetLeafValue(id, value)
    \/ \E id \in 0..next_id, expr \in LeafExprs : SetLeafExpr(id, expr)
    \/ \E id \in 0..next_id : EvalLeaf(id)

SpecLeaf == Init /\ [][NextLeaf]_vars

(***************************************************************************)
(* SpecMeta: a group under the root decorated with metas, which are        *)
(* edited and evaluated.                                                   *)
(***************************************************************************)
GroupNames == {<<"g">>}
MetaNames == {<<"m">>}
MetaStarts == {[tag |-> t] : t \in {"Common", "Sum", "Ident", "Concat"}}
MetaValues == {Sum(<<1, MaxInt>>),
               Concat(<<Literal(StringV(<<"a">>)), Literal(StringV(<<"b">>))>>)}

NextMeta ==
    \/ \E name \in GroupNames : AddGroupTo(name, 0)
    \/ \E name \in MetaNames, parent \in 0..next_id, start \in MetaStarts :
          AddMetaTo(name, parent, start)
    \/ \E id \in 0..next_id, value \in MetaValues : MetaSetValue(id, value)
    \/ \E id \in 0..next_id : EvalLeaf(id)

SpecMeta == Init /\ [][NextMeta]_vars

(***************************************************************************)
(* SpecPath: a tree of Groups under a root that may carry a meta, resolved *)
(* by dotted paths of up to MaxSegments segments from the root and from    *)
(* the meta.                                                               *)
(***************************************************************************)
PathNames == {<<"a">>, <<"b">>}
PathMetaNames == {<<"a">>}
PathStarts == {[tag |-> t] : t \in {"Common", "Sum"}}
\* the nodes a path is resolved from: the root and every Meta
PathParents == {0} \cup {i \in DOMAIN nodes : IsMeta(nodes, i)}

RECURSIVE PathsOf(_)
PathsOf(n) ==
    IF n = 1 THEN PathNames
    ELSE PathsOf(n - 1) \cup {name \o <<SEP>> \o path : name \in PathNames, path \in PathsOf(n - 1)}

Paths == PathsOf(MaxSegments)

NextPath ==
    \/ \E name \in PathNames, parent \in DOMAIN nodes : AddGroupTo(name, parent)
    \/ \E name \in PathMetaNames, start \in PathStarts : AddMetaTo(name, 0, start)
    \/ \E path \in Paths, parent \in PathParents : GetNodeFrom(path, parent)

SpecPath == Init /\ [][NextPath]_vars

(***************************************************************************)
(* SpecLookup: a chain of Groups, Leaves under any Group and a meta on the *)
(* root, looked up by kind from the root and from every Group handle.      *)
(***************************************************************************)
\* the paths looked up: one segment short of the longest path resolved
LookupPaths == PathsOf(MaxSegments - 1)

NextLookup ==
    \/ \E name \in PathMetaNames, parent \in GroupsOf(nodes) : AddGroupTo(name, parent)
    \/ \E name \in PathMetaNames, parent \in GroupsOf(nodes) : AddLeafTo(name, parent, FALSE)
    \/ \E name \in PathNames \ PathMetaNames, start \in PathStarts : AddMetaTo(name, 0, start)
    \/ \E path \in LookupPaths, id \in GroupsOf(nodes) : GetLeaf(path, id)
    \/ \E path \in LookupPaths, id \in GroupsOf(nodes) : GetGroup(path, id)

SpecLookup == Init /\ [][NextLookup]_vars

(***************************************************************************)
(* SpecOperand: leaves under the root whose expressions reference a leaf   *)
(* directly or as the left operand of an addition.                         *)
(***************************************************************************)
Increment(id) == InfixOp(Reference(id), Literal(IntegerV(1)), "Add")
OperandExprs == {Reference(i) : i \in LeafIds} \cup {Increment(i) : i \in LeafIds}

NextOperand ==
    \/ \E name \in LeafNames : AddLeafTo(name, 0, FALSE)
    \/ \E id \in 0..next_id : SetLeafValue(id, IntegerV(MaxInt))
    \/ \E id \in 0..next_id, expr \in OperandExprs : SetLeafExpr(id, expr)
    \/ \E id \in 0..next_id : EvalLeaf(id)

SpecOperand == Init /\ [][NextOperand]_vars

(***************************************************************************)
(* SpecArith: one Leaf under the root, set to integer literals and to      *)
(* operations on two integer literals, and evaluated.  The operands are    *)
(* the ends of the Integer range and small values of both signs.           *)
(***************************************************************************)
Operands == {INT_MIN, -7, 0, 2, INT_MAX}
OpKinds == {"Add", "Sub", "Mul", "Div"}
ArithExprs ==
    {InfixOp(Literal(IntegerV(a)), Literal(IntegerV(b)), kind) :
        a \in Operands, b \in Operands, kind \in OpKinds}

NextArith ==
    \/ AddLeafTo(<<"a">>, 0, FALSE)
    \/ \E id \in LeavesOf(nodes), n \in Operands : SetLeafValue(id, IntegerV(n))
    \/ \E id \in LeavesOf(nodes), expr \in ArithExprs : SetLeafExpr(id, expr)
    \/ \E id \in 0..next_id : EvalLeaf(id)

SpecArith == Init /\ [][NextArith]_vars

(***************************************************************************)
(* SpecOpKind: one Leaf under the root, set to operations of every kind of *)
(* OpKind on two small integer literals, zero among them, and evaluated.   *)
(* No result leaves the range of Integer.                                  *)
(***************************************************************************)
AllOpKinds == {"Add", "Sub", "Mul", "Div", "Pow", "Neg"}
SmallOperands == {-1, 0, MaxInt}
OpKindExprs ==
    {InfixOp(Literal(IntegerV(a)), Literal(IntegerV(b)), kind) :
        a \in SmallOperands, b \in SmallOperands, kind \in AllOpKinds}

NextOpKind ==
    \/ AddLeafTo(<<"a">>, 0, FALSE)
    \/ \E id \in LeavesOf(nodes), expr \in OpKindExprs : SetLeafExpr(id, expr)
    \/ \E id \in 0..next_id : EvalLeaf(id)

SpecOpKind == Init /\ [][NextOpKind]_vars

(***************************************************************************)
(* SpecSheet: the character sheet of main.rs in small.  Two Groups under   *)
(* the root, Leaves named "strength" and metas named "mod" below them, a   *)
(* score set on a Leaf, the modifier expression (score - 10) / 2 of a Leaf *)
(* set on a Leaf, and evaluation.                                          *)
(***************************************************************************)
ABILITY_SCORES == <<"a", "b", "i", "l", "i", "t", "y", "_", "s", "c", "o", "r", "e", "s">>
ABILITIES == <<"a", "b", "i", "l", "i", "t", "i", "e", "s">>
STRENGTH == <<"s", "t", "r", "e", "n", "g", "t", "h">>
MOD == <<"m", "o", "d">>
ABILITIES_STRENGTH == ABILITIES \o <<SEP>> \o STRENGTH

SheetGroups == {ABILITY_SCORES, ABILITIES}
SheetStarts == {[tag |-> t] : t \in {"Common", "Sum"}}
Score == IntegerV(20)
\* (Reference(score) - 10) / 2
Modifier(score) ==
    InfixOp(InfixOp(Reference(score), Literal(IntegerV(10)), "Sub"), Literal(IntegerV(2)), "Div")

NextSheet ==
    \/ \E name \in SheetGroups : AddGroupTo(name, 0)
    \/ \E parent \in 1..next_id : AddLeafTo(STRENGTH, parent, FALSE)
    \/ \E parent \in 1..next_id, start \in SheetStarts : AddMetaTo(MOD, parent, start)
    \/ \E id \in LeavesOf(nodes) : SetLeafValue(id, Score)
    \/ \E id \in LeavesOf(nodes), score \in LeavesOf(nodes) : SetLeafExpr(id, Modifier(score))
    \/ \E id \in 0..next_id : EvalLeaf(id)

SpecSheet == Init /\ [][NextSheet]_vars

(***************************************************************************)
(* SpecConcat: a Leaf and a Concat meta under the root.  The Leaf is set   *)
(* to a String or an Integer, the meta is given lists of literals and of   *)
(* references to the nodes of the store and to an identity not in it, and  *)
(* both are evaluated.                                                     *)
(***************************************************************************)
ConcatValues == {StringV(<<"b">>), IntegerV(MaxInt)}
ConcatElems ==
    {Literal(StringV(<<"a">>)), Literal(IntegerV(MaxInt))} \cup {Reference(i) : i \in 1..3}
ConcatLists ==
    {<<>>} \cup {<<e>> : e \in ConcatElems} \cup {<<e, f>> : e \in ConcatElems, f \in ConcatElems}

NextConcat ==
    \/ AddLeafTo(<<"a">>, 0, FALSE)
    \/ AddMetaTo(<<"m">>, 0, [tag |-> "Concat"])
    \/ \E id \in LeavesOf(nodes), value \in ConcatValues : SetLeafValue(id, value)
    \/ \E id \in DOMAIN nodes \ {0}, elements \in ConcatLists : MetaSetValue(id, Concat(elements))
    \/ \E id \in DOMAIN nodes : EvalLeaf(id)

SpecConcat == Init /\ [][NextConcat]_vars

(***************************************************************************)
(* SpecIdent: a Group "g" under the root, Leaves "a" and "b" inside it and *)
(* a Leaf "b" under the root.  A Leaf is set to an Integer or to the       *)
(* String "g.a", the Leaf under the root also to IdentRef of a Leaf, and   *)
(* every Leaf is evaluated.                                                *)
(***************************************************************************)
IdentGroup == <<"g">>
IdentPath == IdentGroup \o <<SEP>> \o <<"a">>
IdentValues == {StringV(IdentPath), IntegerV(MaxInt)}

NextIdent ==
    \/ AddGroupTo(IdentGroup, 0)
    \/ AddLeafTo(<<"b">>, 0, FALSE)
    \/ \E name \in LeafNames, parent \in GroupsOf(nodes) \ {0} : AddLeafTo(name, parent, FALSE)
    \/ \E id \in LeavesOf(nodes), value \in IdentValues : SetLeafValue(id, value)
    \/ \E id \in LeavesOf(nodes) \cap Range(nodes[0].node.children), ref \in LeavesOf(nodes) :
          SetLeafExpr(id, IdentRef(ref))
    \/ \E id \in LeavesOf(nodes) : EvalLeaf(id)

SpecIdent == Init /\ [][NextIdent]_vars

(***************************************************************************)
(* SpecConstraint: a Group and a Leaf under the root, decorated with       *)
(* Common and Constraint metas of every operator.  The Leaf is set to      *)
(* Integers on both sides of the bound and to an expression, the           *)
(* Constraint is given another operator and bound, and every node is       *)
(* evaluated.                                                              *)
(***************************************************************************)
ConstraintOps == {"GreaterThan", "GreaterOrEqual", "LessThan", "LessOrEqual", "Equal"}
ConstraintBound == 0
Constraints == {[op |-> o, bound |-> ConstraintBound] : o \in ConstraintOps}
ConstraintStarts ==
    {[tag |-> "Common"]} \cup {[tag |-> "Constraint", constraint |-> c] : c \in Constraints}
\* the bound a Constraint is replaced with
ConstraintRebound == [op |-> "Equal", bound |-> MaxInt]
ConstraintValues == {IntegerV(n) : n \in {-1, MaxInt}}
\* 0 - MaxInt
ConstraintExpr == InfixOp(Literal(IntegerV(0)), Literal(IntegerV(MaxInt)), "Sub")

NextConstraint ==
    \/ AddGroupTo(<<"g">>, 0)
    \/ AddLeafTo(<<"a">>, 0, FALSE)
    \/ \E parent \in Range(nodes[0].node.children), start \in ConstraintStarts :
          AddMetaTo(<<"m">>, parent, start)
    \/ \E id \in 0..next_id, value \in ConstraintValues : SetLeafValue(id, value)
    \/ \E id \in 0..next_id : SetLeafExpr(id, ConstraintExpr)
    \/ \E id \in DOMAIN nodes \ {0} : MetaSetValue(id, Constraint(ConstraintRebound))
    \/ \E id \in 0..next_id : EvalLeaf(id)

SpecConstraint == Init /\ [][NextConstraint]_vars

(***************************************************************************)
(* SpecCommon: nodes of every kind and metas of every kind added under     *)
(* nodes of every kind, by the add operations of the store and through the *)
(* handle of a Meta, with names that are valid and a name that is not.     *)
(***************************************************************************)
CommonNames == {<<"a">>, <<"a", ".", "a">>}
CommonLeafNames == {<<"a">>, <<"b">>}
CommonStarts ==
    {[tag |-> t] : t \in {"Common", "Sum", "Ident", "Concat"}}
      \cup {[tag |-> "Constraint", constraint |-> [op |-> "Equal", bound |-> ConstraintBound]]}

NextCommon ==
    \/ \E name \in CommonLeafNames, parent \in DOMAIN nodes : AddLeafTo(name, parent, FALSE)
    \/ \E name \in CommonNames, parent \in DOMAIN nodes : AddGroupTo(name, parent)
    \/ \E name \in CommonNames, parent \in DOMAIN nodes, start \in CommonStarts :
          AddMetaTo(name, parent, start)
    \/ \E name \in CommonLeafNames, id \in MetasOf(nodes) : MetaAddLeaf(name, id, FALSE)
    \/ \E name \in CommonNames, id \in MetasOf(nodes) : MetaAddGroup(name, id)

SpecCommon == Init /\ [][NextCommon]_vars

(***************************************************************************)
(* SpecMain: main.rs, statement by statement.  main is one sequential      *)
(* program; MainProgram lists the statements it executes in order (loops   *)
(* unrolled over the six abilities), MainExec is one statement, and        *)
(* MainSucc runs it from Template::new() to the state main is in and one   *)
(* statement further, carrying the store, the last call and main's local   *)
(* variables.  An unwrap on an Err or a None ends the program.             *)
(***************************************************************************)

\* ability_names and scores of main
ability_names ==
    <<STRENGTH,
      <<"d", "e", "x", "t", "e", "r", "i", "t", "y">>,
      <<"c", "o", "n", "s", "t", "i", "t", "u", "t", "i", "o", "n">>,
      <<"i", "n", "t", "e", "l", "l", "i", "g", "e", "n", "c", "e">>,
      <<"w", "i", "s", "d", "o", "m">>,
      <<"c", "h", "a", "r", "i", "s", "m", "a">>>>
main_scores == <<20, 16, 18, 10, 8, 12>>

\* the expression main gives the Leaf "mod": (IdentRef(concat_id) - 10) / 2
MainModifier(concat_id) ==
    InfixOp(InfixOp(IdentRef(concat_id), Literal(IntegerV(10)), "Sub"), Literal(IntegerV(2)), "Div")

\* the statement at a line of main.rs, in iteration i of its loop (0: no loop)
Stmt(line, i) == [line |-> line, i |-> i]

\* a loop of main over ability_names whose body is the statements at lines
MainLoop(lines) ==
    [k \in 1..(Len(ability_names) * Len(lines)) |->
        Stmt(lines[((k - 1) % Len(lines)) + 1], ((k - 1) \div Len(lines)) + 1)]

MainProgram ==
    <<Stmt(12, 0)>> \o MainLoop(<<14>>) \o <<Stmt(17, 0)>> \o MainLoop(<<19>>)
    \o <<Stmt(24, 0), Stmt(25, 0), Stmt(28, 0), Stmt(29, 0), Stmt(30, 0), Stmt(34, 0), Stmt(35, 0)>>
    \o MainLoop(<<57, 58, 59>>) \o MainLoop(<<65, 66>>) \o MainLoop(<<71, 75>>)

MainSt(self, next, r, env) == [nodes |-> self, next_id |-> next, ret |-> r, env |-> env]

\* an add followed by unwrap(), the identity of the handle bound to a local
MainAdd(st, op, name, parent, o, local) ==
    MainSt(o.nodes, o.next_id, AddRet(op, name, parent, o),
           IF IsSome(o.id) THEN [st.env EXCEPT ![local] = Unwrap(o.id)] ELSE st.env)

\* a typed lookup from the root followed by unwrap(), the identity bound to a local
MainGet(st, op, path, found, local) ==
    MainSt(st.nodes, st.next_id, Ret(op, path, 0, "Ok", NoErr, found, NoValue),
           IF IsSome(found) THEN [st.env EXCEPT ![local] = Unwrap(found)] ELSE st.env)

\* an edit of a Leaf followed by unwrap()
MainEdit(st, op, id, o) == MainSt(o.nodes, st.next_id, EditRet(op, id, o), st.env)

\* unwrap() panicked on what the last call returned
MainPanicked(r) ==
    \/ r.status # "Ok"
    \/ r.op \in {"get_leaf", "get_leaf_handle", "get_group_handle"} /\ ~IsSome(r.id)

MainExec(st, s) ==
    LET e == st.env
        name == IF s.i = 0 THEN <<>> ELSE ability_names[s.i]
        NAME == <<"n", "a", "m", "e">>
        SOURCE == <<"s", "o", "u", "r", "c", "e">>
    IN
    CASE s.line = 12 ->
           MainAdd(st, "add_group_to", ABILITY_SCORES, 0,
                   add_group_to(st.nodes, st.next_id, ABILITY_SCORES, 0), "ability_scores")
      [] s.line = 14 ->
           MainAdd(st, "add_leaf_to", name, e.ability_scores,
                   add_leaf_to(st.nodes, st.next_id, name, e.ability_scores, FALSE), "handle")
      [] s.line = 17 ->
           MainAdd(st, "add_group_to", ABILITIES, 0,
                   add_group_to(st.nodes, st.next_id, ABILITIES, 0), "abilities")
      [] s.line = 19 ->
           MainAdd(st, "add_leaf_to", name, e.abilities,
                   add_leaf_to(st.nodes, st.next_id, name, e.abilities, FALSE), "handle")
      [] s.line = 24 ->
           MainGet(st, "get_group_handle", ABILITIES, get_group(st.nodes, ABILITIES, 0), "node")
      [] s.line = 25 ->
           MainAdd(st, "add_meta_to", MOD, e.node,
                   add_meta_to(st.nodes, st.next_id, MOD, e.node, [tag |-> "Common"]), "meta_id")
      [] s.line = 28 ->
           MainAdd(st, "add_meta_to", NAME, e.meta_id,
                   add_meta_to(st.nodes, st.next_id, NAME, e.meta_id, [tag |-> "Ident"]), "name_id")
      [] s.line = 29 ->
           MainAdd(st, "add_meta_to", SOURCE, e.meta_id,
                   add_meta_to(st.nodes, st.next_id, SOURCE, e.meta_id, [tag |-> "Concat"]), "concat_id")
      [] s.line = 30 ->
           LET o == MetaHandle_set_value(st.nodes, e.concat_id,
                        Concat(<<Literal(StringV(ABILITY_SCORES \o <<SEP>>)), Reference(e.name_id)>>))
           IN  MainSt(o.nodes, st.next_id,
                      Ret("MetaHandle::set_value", <<>>, e.concat_id, o.status,
                          IF o.status = "Ok" THEN NoErr ELSE Err0(o.err), None, NoValue),
                      e)
      [] s.line = 34 ->
           MainAdd(st, "MetaHandle::add_leaf", MOD, e.meta_id,
                   MetaHandle_add_leaf(st.nodes, st.next_id, e.meta_id, MOD, FALSE), "modifier")
      [] s.line = 35 ->
           MainEdit(st, "set_leaf_expr", e.modifier,
                    set_leaf_expr(st.nodes, e.modifier, MainModifier(e.concat_id)))
      [] s.line = 57 ->
           MainGet(st, "get_leaf", ABILITIES \o <<SEP>> \o MOD \o <<SEP>> \o MOD,
                   get_leaf(st.nodes, ABILITIES \o <<SEP>> \o MOD \o <<SEP>> \o MOD, 0), "value_id")
      [] s.line = 58 ->
           MainGet(st, "get_leaf_handle", ABILITIES \o <<SEP>> \o name,
                   get_leaf(st.nodes, ABILITIES \o <<SEP>> \o name, 0), "handle")
      [] s.line = 59 ->
           MainEdit(st, "set_leaf_expr", e.handle,
                    set_leaf_expr(st.nodes, e.handle, Reference(e.value_id)))
      [] s.line = 65 ->
           MainGet(st, "get_leaf_handle", ABILITY_SCORES \o <<SEP>> \o name,
                   get_leaf(st.nodes, ABILITY_SCORES \o <<SEP>> \o name, 0), "handle")
      [] s.line = 66 ->
           MainSt(set_leaf_value(st.nodes, e.handle, IntegerV(main_scores[s.i])).nodes, st.next_id,
                  [EditRet("set_leaf_value", e.handle,
                           set_leaf_value(st.nodes, e.handle, IntegerV(main_scores[s.i])))
                     EXCEPT !.value = IntegerV(main_scores[s.i])],
                  e)
      [] s.line = 71 ->
           MainGet(st, "get_leaf", ABILITIES \o <<SEP>> \o name,
                   get_leaf(st.nodes, ABILITIES \o <<SEP>> \o name, 0), "handle")
      [] s.line = 75 ->
           MainSt(eval_leaf(st.nodes, e.handle).nodes, st.next_id,
                  EvalRet(e.handle, eval_leaf(st.nodes, e.handle).res), e)

\* main before its first statement: Template::new(), and main's local variables
\* holding identities
MainState0 ==
    MainSt(Insert(<<>>, 0, Entry(Group(0, None), THE_MOTHER)), 1,
           Ret("new", <<>>, 0, "Ok", NoErr, None, NoValue),
           [ability_scores |-> 0, abilities |-> 0, node |-> 0, meta_id |-> 0, name_id |-> 0,
            concat_id |-> 0, modifier |-> 0, value_id |-> 0, handle |-> 0])

\* the state main reaches by its next statement, main being in the state of
\* nodes, next_id and ret: st is main's state before statement k.  None when
\* main has ended, with its last statement or with an unwrap() that panicked
RECURSIVE MainSucc(_, _)
MainSucc(st, k) ==
    IF k > Len(MainProgram) \/ MainPanicked(st.ret) THEN None
    ELSE IF st.nodes = nodes /\ st.next_id = next_id /\ st.ret = ret
         THEN Some(MainExec(st, MainProgram[k]))
         ELSE MainSucc(MainExec(st, MainProgram[k]), k + 1)

\* the next statement of main
MainStep ==
    /\ Running
    /\ LET succ == MainSucc(MainState0, 1) IN
       /\ IsSome(succ)
       /\ nodes' = Unwrap(succ).nodes
       /\ next_id' = Unwrap(succ).next_id
       /\ ret' = Unwrap(succ).ret
    /\ UNCHANGED overflow_checks

SpecMain == Init /\ [][MainStep]_vars

(***************************************************************************)
(* Vocabulary of the properties.                                           *)
(***************************************************************************)
AddOps == {"add_leaf_to", "add_group_to", "add_meta_to"}
HandleAddOps == {"MetaHandle::add_leaf", "MetaHandle::add_group"}
\* the identities in the two lists of a Group
Listed(self, g) == Range(self[g].node.children) \cup Range(self[g].node.metadata)
\* the Groups a meta is attached to: those with the meta in their metadata list
DecoratedBy(self, m) == {g \in GroupsOf(self) : m \in Range(self[g].node.metadata)}
EditOps == {"set_leaf_value", "set_leaf_expr"}

\* the identities in the namespace of parent: a Group's children and metadata,
\* a Leaf's metadata, and for a Common meta those of its inner Group
Namespace(self, parent) ==
    CASE IsGroup(self, parent) ->
            Range(self[parent].node.children) \cup Range(self[parent].node.metadata)
      [] IsLeaf(self, parent) -> Range(self[parent].node.metadata)
      [] IsCommon(self, parent) ->
            Range(self[self[parent].node.data.inner].node.children)
              \cup Range(self[self[parent].node.data.inner].node.metadata)
      [] OTHER -> {}

NameCarried(self, parent, name) ==
    \E i \in Namespace(self, parent) : Exists(self, i) /\ self[i].name = name

\* the Common metas in the metadata list of a Group
CommonsOf(self, g) == {i \in 1..Len(self[g].node.metadata) : IsCommon(self, self[g].node.metadata[i])}

\* the Groups that meta m decorates: m is in the Group's metadata list, or in the
\* metadata list of the inner Group of a Common meta of the Group
Decorates(self, g, m) ==
    /\ IsGroup(self, g)
    /\ self[g].name # COMMON_INNER
    /\ \/ m \in Range(self[g].node.metadata)
       \/ \E c \in Range(self[g].node.metadata) :
             /\ IsCommon(self, c)
             /\ m \in Range(self[self[c].node.data.inner].node.metadata)

IsIdent(self, m) == IsMeta(self, m) /\ self[m].node.data.tag = "Ident"

\* the Groups among the children of Group g
GroupChildren(self, g) == {c \in Range(self[g].node.children) : IsGroup(self, c)}

\* the chains of Groups that continue a chain ending in Group g, whose names
\* joined by the separator are path: each with its last Group and its path
RECURSIVE ChainsBelow(_, _, _)
ChainsBelow(self, g, path) ==
    {[last |-> g, path |-> path]}
      \cup UNION {ChainsBelow(self, c, path \o <<SEP>> \o self[c].name) : c \in GroupChildren(self, g)}

\* every chain g0, ..., gN of Groups, g0 a child of the root and each next one a
\* child of the one before
Chains(self) == UNION {ChainsBelow(self, c, self[c].name) : c \in GroupChildren(self, 0)}

\* the number of separators in a path
Separators(path) == Cardinality({i \in 1..Len(path) : path[i] = SEP})

\* the combined list of a node: children then metadata of a Group, the metadata
\* of a Leaf, nothing for a Meta
Siblings(self, p) ==
    CASE IsGroup(self, p) -> self[p].node.children \o self[p].node.metadata
      [] IsLeaf(self, p) -> self[p].node.metadata
      [] OTHER -> <<>>

(***************************************************************************)
(* C1 (SpecLeaf).  Two uncached leaves whose expressions reference each    *)
(* other: an eval_leaf of either returns the error InfiniteRecursion.      *)
(* The code never pushes to checked, so the call does not return.          *)
(***************************************************************************)
C1_ReferenceCycleFails ==
    \A A \in DOMAIN nodes, B \in DOMAIN nodes :
        ( /\ A # B
          /\ IsLeaf(nodes, A) /\ IsLeaf(nodes, B)
          /\ nodes[A].node.value = Some(Reference(B))
          /\ nodes[B].node.value = Some(Reference(A))
          /\ ~nodes[A].node.cache_valid /\ ~nodes[B].node.cache_valid
          /\ ret.op = "eval_leaf" /\ ret.target \in {A, B} )
        => (ret.status = "Err" /\ ret.err.kind = "InfiniteRecursion")

(***************************************************************************)
(* C2 (Spec).  An add that returns an AddError leaves the store as it was: *)
(* the same nodes with the same lists, and the same next identity.         *)
(***************************************************************************)
C2_FailedAddChangesNothing ==
    [][(ret'.op \in AddOps /\ ret'.status = "Err") => (nodes' = nodes /\ next_id' = next_id)]_vars

(***************************************************************************)
(* C3 (Spec).  No Group has two Common metas in its metadata list.         *)
(***************************************************************************)
C3_AtMostOneCommon ==
    \A g \in DOMAIN nodes : IsGroup(nodes, g) => Cardinality(CommonsOf(nodes, g)) <= 1

(***************************************************************************)
(* C4 (SpecMeta).  eval_leaf of an Ident meta that decorates a Group the   *)
(* caller created, directly or through a Common meta, returns the Group's  *)
(* name.                                                                   *)
(***************************************************************************)
C4_IdentNamesItsGroup ==
    \A g \in DOMAIN nodes \ {0} :
        (ret.op = "eval_leaf" /\ IsIdent(nodes, ret.target) /\ Decorates(nodes, g, ret.target))
        => (ret.status = "Ok" /\ ret.value = StringV(nodes[g].name))

(***************************************************************************)
(* C5 (SpecLeaf).  A successful eval_leaf of a Leaf leaves its cache valid *)
(* with the value returned; set_leaf_value and set_leaf_expr on a Leaf     *)
(* with a valid cache succeed and leave the cache as it is; and eval_leaf  *)
(* of a Leaf with a valid cache returns the cached value, whatever the     *)
(* Leaf's expression now is.                                               *)
(***************************************************************************)
C5_StaleCacheOnMutation ==
    [][\A L \in DOMAIN nodes :
          (IsLeaf(nodes, L) /\ ret'.target = L) =>
             /\ (ret'.op = "eval_leaf" /\ ret'.status = "Ok")
                   => (nodes'[L].node.cache_valid /\ nodes'[L].node.cached = Some(ret'.value))
             /\ (nodes[L].node.cache_valid /\ IsSome(nodes[L].node.cached) /\ ret'.op \in EditOps)
                   => /\ ret'.status = "Ok"
                      /\ nodes'[L].node.cache_valid
                      /\ nodes'[L].node.cached = nodes[L].node.cached
             /\ (nodes[L].node.cache_valid /\ IsSome(nodes[L].node.cached) /\ ret'.op = "eval_leaf")
                   => /\ ret'.status = "Ok"
                      /\ ret'.value = Unwrap(nodes[L].node.cached)]_vars

\* an eval_leaf has returned a value that is not the literal the Leaf now holds
C5_Witness ==
    /\ ret.op = "eval_leaf" /\ ret.status = "Ok"
    /\ IsLeaf(nodes, ret.target)
    /\ IsSome(nodes[ret.target].node.value)
    /\ Unwrap(nodes[ret.target].node.value).tag = "Literal"
    /\ Unwrap(nodes[ret.target].node.value).value # ret.value

(***************************************************************************)
(* C6 (SpecLeaf).  A successful eval_leaf of an uncached Leaf X whose      *)
(* expression is Reference(Y) or IdentRef(Y), Y a Leaf, leaves Y's cache   *)
(* valid, holding Y's value (for Reference(Y), the value returned).        *)
(***************************************************************************)
C6_IntermediatesMemoized ==
    [][\A X \in DOMAIN nodes, Y \in DOMAIN nodes :
          ( /\ ret'.op = "eval_leaf" /\ ret'.target = X /\ ret'.status = "Ok"
            /\ IsLeaf(nodes, X) /\ IsLeaf(nodes, Y)
            /\ ~nodes[X].node.cache_valid
            /\ nodes[X].node.value \in {Some(Reference(Y)), Some(IdentRef(Y))} )
          => /\ nodes'[Y].node.cache_valid
             /\ nodes[X].node.value = Some(Reference(Y))
                   => nodes'[Y].node.cached = Some(ret'.value)]_vars

(***************************************************************************)
(* C7 (SpecMeta).  After eval_leaf(id) returns Ok(v), the cache of node id *)
(* is valid and holds v, for a Leaf and for a Meta.                        *)
(***************************************************************************)
C7_RequestedNodeMemoized ==
    (ret.op = "eval_leaf" /\ ret.status = "Ok")
    => /\ nodes[ret.target].node.cache_valid
       /\ nodes[ret.target].node.cached = Some(ret.value)

(***************************************************************************)
(* C8 (Spec).  An add of a Leaf, Group or Meta under a Group, Leaf or      *)
(* Common meta, with a name that a node in the parent's namespace already  *)
(* carries, fails with NameConflict.                                       *)
(***************************************************************************)
C8_NameConflict ==
    [][(ret'.op \in AddOps /\ NameCarried(nodes, ret'.target, ret'.name))
          => (ret'.status = "Err" /\ ret'.err.kind = "NameConflict")]_vars

\* an add under a Common meta has failed with NameConflict
C8_Witness ==
    /\ ret.op \in AddOps
    /\ ret.status = "Err" /\ ret.err.kind = "NameConflict"
    /\ IsCommon(nodes, ret.target)
    /\ NameCarried(nodes, ret.target, ret.name)

(***************************************************************************)
(* C9 (Spec).  As claimed: add_leaf_to and add_group_to with a name free   *)
(* of separators fail with ParentNotExists when the parent is not in the   *)
(* store and with ParentIsLeaf when the parent is a Leaf.                  *)
(***************************************************************************)
C9_ParentValidation_Original ==
    [][(ret'.op \in {"add_leaf_to", "add_group_to"} /\ verify_name(ret'.name))
          => /\ ~Exists(nodes, ret'.target)
                   => (ret'.status = "Err" /\ ret'.err.kind = "ParentNotExists")
             /\ IsLeaf(nodes, ret'.target)
                   => (ret'.status = "Err" /\ ret'.err.kind = "ParentIsLeaf")]_vars

(***************************************************************************)
(* C9 (Spec), amended.  The same, for a name that is not the reserved name *)
(* of the inner Group when the call is add_group_to, and for a Leaf parent *)
(* none of whose metadata nodes carries the name.                          *)
(***************************************************************************)
C9_ParentValidation ==
    [][( /\ ret'.op \in {"add_leaf_to", "add_group_to"}
         /\ verify_name(ret'.name)
         /\ ret'.op = "add_group_to" => ret'.name # COMMON_INNER )
          => /\ ~Exists(nodes, ret'.target)
                   => (ret'.status = "Err" /\ ret'.err.kind = "ParentNotExists")
             /\ (IsLeaf(nodes, ret'.target) /\ ~NameCarried(nodes, ret'.target, ret'.name))
                   => (ret'.status = "Err" /\ ret'.err.kind = "ParentIsLeaf")]_vars

\* an add_group_to under a Leaf that has metadata has failed with ParentIsLeaf
C9_Witness ==
    /\ ret.op = "add_group_to"
    /\ ret.status = "Err" /\ ret.err.kind = "ParentIsLeaf"
    /\ IsLeaf(nodes, ret.target)
    /\ nodes[ret.target].node.metadata # <<>>
    /\ ~NameCarried(nodes, ret.target, ret.name)

(***************************************************************************)
(* C10 (Spec).  Every add whose name contains the separator or is the      *)
(* reserved name of the inner Group fails with InvalidName.                *)
(***************************************************************************)
C10_InvalidName ==
    (ret.op \in AddOps /\ (Contains(ret.name, SEP) \/ ret.name = COMMON_INNER))
    => (ret.status = "Err" /\ ret.err.kind = "InvalidName")

(***************************************************************************)
(* C11 (Spec).  In every state the add operations reach, the identities in *)
(* the combined children and metadata lists of a node name stored nodes    *)
(* with pairwise different names, and no stored name contains the          *)
(* separator.                                                              *)
(***************************************************************************)
C11_SiblingNamesUnique ==
    /\ \A p \in DOMAIN nodes :
          \A i \in 1..Len(Siblings(nodes, p)), j \in 1..Len(Siblings(nodes, p)) :
              /\ Exists(nodes, Siblings(nodes, p)[i])
              /\ i # j => nodes[Siblings(nodes, p)[i]].name # nodes[Siblings(nodes, p)[j]].name
    /\ \A i \in DOMAIN nodes : ~Contains(nodes[i].name, SEP)

\* a Group holds a child and a meta, and the last add was refused for its name
C11_Witness ==
    /\ \E p \in DOMAIN nodes :
          IsGroup(nodes, p) /\ nodes[p].node.children # <<>> /\ nodes[p].node.metadata # <<>>
    /\ ret.op \in AddOps /\ ret.status = "Err"
    /\ ret.err.kind \in {"NameConflict", "InvalidName"}

(***************************************************************************)
(* C12 (Spec).  When add_leaf_to(name, root) succeeds with identity i,     *)
(* get_node_from(name, root) on the store it leaves returns i.             *)
(***************************************************************************)
C12_ResolveAfterAdd ==
    [][(ret'.op = "add_leaf_to" /\ ret'.target = 0 /\ ret'.status = "Ok")
          => get_node_from(nodes', ret'.name, 0) = ret'.id]_vars

\* a Leaf was added under a root that already held a meta
C12_Witness ==
    /\ ret.op = "add_leaf_to" /\ ret.target = 0 /\ ret.status = "Ok"
    /\ nodes[0].node.metadata # <<>>
    /\ get_node_from(nodes, ret.name, 0) = ret.id

(***************************************************************************)
(* C13 (SpecPath).  For every chain of Groups g0, ..., gN, g0 a child of   *)
(* the root and each next one a child of the one before, get_node_from of  *)
(* the path "g0.g1...gN" from the root returns the identity of gN.         *)
(***************************************************************************)
C13_NestedPathResolves ==
    (ret.op = "get_node_from" /\ ret.target = 0)
    => \A chain \in Chains(nodes) : ret.name = chain.path => ret.id = Some(chain.last)

\* a path of MaxSegments segments was resolved from the root to the last Group
\* of a chain, in a store where the Groups on the way have other children
C13_Witness ==
    /\ ret.op = "get_node_from" /\ ret.target = 0
    /\ Separators(ret.name) = MaxSegments - 1
    /\ \E chain \in Chains(nodes) : ret.name = chain.path /\ ret.id = Some(chain.last)
    /\ Len(nodes[0].node.children) >= 2

(***************************************************************************)
(* C14 (SpecPath).  get_node_from(p, m) from a Common meta m returns what  *)
(* get_node_from(p, inner) returns from m's inner Group, for every path p  *)
(* of one or more segments; from any other Meta it returns None.           *)
(***************************************************************************)
C14_ResolveThroughCommon ==
    (ret.op = "get_node_from" /\ IsMeta(nodes, ret.target))
    => IF IsCommon(nodes, ret.target)
       THEN ret.id = get_node_from(nodes, ret.name, nodes[ret.target].node.data.inner)
       ELSE ret.id = None

(***************************************************************************)
(* C15 (Spec).  The store new() returns holds the root Group alone, with   *)
(* identity 0 and no parent; the root is there after every call; and the   *)
(* identity a successful add returns is not 0, names the node added and no *)
(* other, and is greater than every identity in the store before the call  *)
(* (the identities earlier adds returned are among them).                  *)
(***************************************************************************)
C15_IdentityAllocation ==
    [][ /\ ret.op = "new" =>
              (DOMAIN nodes = {0} /\ IsGroup(nodes, 0) /\ nodes[0].node.id = 0 /\ nodes[0].node.parent = None)
        /\ Exists(nodes', 0) /\ IsGroup(nodes', 0) /\ nodes'[0].node.parent = None
        /\ (ret'.op \in AddOps /\ ret'.status = "Ok") =>
              /\ IsSome(ret'.id)
              /\ Unwrap(ret'.id) # 0
              /\ ~Exists(nodes, Unwrap(ret'.id))
              /\ \A j \in DOMAIN nodes : j < Unwrap(ret'.id)
              /\ Exists(nodes', Unwrap(ret'.id))
              /\ \A j \in DOMAIN nodes' : (nodes'[j].node.id = Unwrap(ret'.id)) = (j = Unwrap(ret'.id)) ]_vars

\* an add has succeeded after earlier adds, some of which failed and used up
\* an identity
C15_Witness ==
    /\ ret.op \in AddOps /\ ret.status = "Ok"
    /\ Cardinality(DOMAIN nodes) >= 3
    /\ Unwrap(ret.id) >= Cardinality(DOMAIN nodes)

(***************************************************************************)
(* C16 (SpecSheet).  Across every add, set_leaf_value, set_leaf_expr and   *)
(* eval_leaf, a node in the store stays in the store with the same kind,   *)
(* the same name and the same parent field.                                *)
(***************************************************************************)
C16_StructureImmutable ==
    [][\A i \in DOMAIN nodes :
          /\ Exists(nodes', i)
          /\ nodes'[i].node.tag = nodes[i].node.tag
          /\ nodes'[i].name = nodes[i].name
          /\ nodes'[i].node.parent = nodes[i].node.parent]_vars

\* a Leaf inside a Group the caller made was edited or evaluated, in a store
\* that also holds a Meta
C16_Witness ==
    /\ ret.op \in EditOps \cup {"eval_leaf"} /\ ret.status = "Ok"
    /\ IsLeaf(nodes, ret.target)
    /\ nodes[ret.target].node.parent # Some(0)
    /\ \E m \in DOMAIN nodes : IsMeta(nodes, m)

(***************************************************************************)
(* C18 (SpecSheet).  As claimed: whenever Group "ability_scores" holds     *)
(* Leaf "strength" set to Integer(20) and Group "abilities" holds Leaf     *)
(* "strength" whose expression is                                          *)
(* (Reference(ability_scores.strength) - 10) / 2, eval_leaf of the second  *)
(* Leaf returns Integer(5).                                                *)
(***************************************************************************)
C18_SheetModifier_Original ==
    [][(ret'.op = "eval_leaf" /\ IsLeaf(nodes, ret'.target))
       => \A scores \in DOMAIN nodes, abilities \in DOMAIN nodes, score \in DOMAIN nodes :
            ( /\ IsGroup(nodes, scores) /\ nodes[scores].name = ABILITY_SCORES
              /\ scores \in Range(nodes[0].node.children)
              /\ IsGroup(nodes, abilities) /\ nodes[abilities].name = ABILITIES
              /\ abilities \in Range(nodes[0].node.children)
              /\ IsLeaf(nodes, score) /\ nodes[score].name = STRENGTH
              /\ score \in Range(nodes[scores].node.children)
              /\ nodes[score].node.value = Some(Literal(Score))
              /\ nodes[ret'.target].name = STRENGTH
              /\ ret'.target \in Range(nodes[abilities].node.children)
              /\ nodes[ret'.target].node.value = Some(Modifier(score)) )
            => /\ get_node_from(nodes, ABILITIES_STRENGTH, 0) = Some(ret'.target)
               /\ ret'.status = "Ok"
               /\ ret'.value = IntegerV(5)]_vars

(***************************************************************************)
(* C18 (SpecSheet), amended.  In a store where no Leaf holds a valid cache *)
(* (none has been evaluated yet), with                                     *)
(* Group "ability_scores" holding Leaf "strength" set to Integer(20) and   *)
(* Group "abilities" holding Leaf "strength" whose expression is           *)
(* (Reference(ability_scores.strength) - 10) / 2: the path                 *)
(* "abilities.strength" resolves from the root to the second Leaf, and     *)
(* eval_leaf of it returns Integer(5).                                     *)
(***************************************************************************)
C18_SheetModifier ==
    [][( /\ ret'.op = "eval_leaf"
         /\ IsLeaf(nodes, ret'.target)
         /\ \A l \in DOMAIN nodes : IsLeaf(nodes, l) => ~nodes[l].node.cache_valid )
       => \A scores \in DOMAIN nodes, abilities \in DOMAIN nodes, score \in DOMAIN nodes :
            ( /\ IsGroup(nodes, scores) /\ nodes[scores].name = ABILITY_SCORES
              /\ scores \in Range(nodes[0].node.children)
              /\ IsGroup(nodes, abilities) /\ nodes[abilities].name = ABILITIES
              /\ abilities \in Range(nodes[0].node.children)
              /\ IsLeaf(nodes, score) /\ nodes[score].name = STRENGTH
              /\ score \in Range(nodes[scores].node.children)
              /\ nodes[score].node.value = Some(Literal(Score))
              /\ nodes[ret'.target].name = STRENGTH
              /\ ret'.target \in Range(nodes[abilities].node.children)
              /\ nodes[ret'.target].node.value = Some(Modifier(score)) )
            => /\ get_node_from(nodes, ABILITIES_STRENGTH, 0) = Some(ret'.target)
               /\ ret'.status = "Ok"
               /\ ret'.value = IntegerV(5)]_vars

\* the sheet was built and the modifier evaluated to Integer(5)
C18_Witness ==
    /\ ret.op = "eval_leaf" /\ ret.status = "Ok" /\ ret.value = IntegerV(5)
    /\ get_node_from(nodes, ABILITIES_STRENGTH, 0) = Some(ret.target)
    /\ IsSome(get_node_from(nodes, ABILITY_SCORES \o <<SEP>> \o STRENGTH, 0))
    /\ nodes[ret.target].node.value
          = Some(Modifier(Unwrap(get_node_from(nodes, ABILITY_SCORES \o <<SEP>> \o STRENGTH, 0))))

(***************************************************************************)
(* C17 (SpecOperand).  Leaf A = InfixOp(Reference(B), Literal(1), Add) and *)
(* Leaf B = Reference(A), neither cached: eval_leaf(A) returns the error   *)
(* InfiniteRecursion.  InfixOp::eval evaluates its operands with a new,    *)
(* empty checked, and nothing is ever pushed to checked: the call does not *)
(* return.                                                                 *)
(***************************************************************************)
C17_OperandCycleFails ==
    [][\A A \in DOMAIN nodes, B \in DOMAIN nodes :
          ( /\ A # B
            /\ IsLeaf(nodes, A) /\ IsLeaf(nodes, B)
            /\ nodes[A].node.value = Some(Increment(B))
            /\ nodes[B].node.value = Some(Reference(A))
            /\ ~nodes[A].node.cache_valid /\ ~nodes[B].node.cache_valid
            /\ ret'.op = "eval_leaf" /\ ret'.target = A )
          => (ret'.status = "Err" /\ ret'.err.kind = "InfiniteRecursion")]_vars

(***************************************************************************)
(* C19 (SpecArith).  As claimed: eval_leaf of a Leaf set to                *)
(* InfixOp(Literal(a), Literal(b), op), for all Integers a and b, returns  *)
(* Integer(a + b) for Add, Integer(a - b) for Sub, Integer(a * b) for Mul, *)
(* and for Div with b # 0 the quotient truncated toward zero.              *)
(***************************************************************************)
\* q is a / b truncated toward zero: the remainder is smaller than b in
\* magnitude and has the sign of a
IsTruncatedQuotient(q, a, b) ==
    LET r == a - (q * b)
    IN  /\ (IF r >= 0 THEN r ELSE -r) < (IF b >= 0 THEN b ELSE -b)
        /\ (r = 0) \/ ((r > 0) = (a > 0))

\* v is what the claim gives for a op b
IsExactResult(v, kind, a, b) ==
    /\ v.kind = "Integer"
    /\ CASE kind = "Add" -> v.int = a + b
          [] kind = "Sub" -> v.int = a - b
          [] kind = "Mul" -> v.int = a * b
          [] kind = "Div" -> IsTruncatedQuotient(v.int, a, b)

\* value is Some of an operation on two Integer literals
IsLiteralOp(value) ==
    /\ IsSome(value)
    /\ Unwrap(value).tag = "InfixOp"
    /\ Unwrap(value).kind \in {"Add", "Sub", "Mul", "Div"}
    /\ Unwrap(value).lhs.tag = "Literal" /\ Unwrap(value).lhs.value.kind = "Integer"
    /\ Unwrap(value).rhs.tag = "Literal" /\ Unwrap(value).rhs.value.kind = "Integer"

\* the result of eval_leaf is what the claim gives for the operation
ReturnsExact(res, op) ==
    /\ res.status = "Ok"
    /\ IsExactResult(res.value, op.kind, op.lhs.value.int, op.rhs.value.int)

C19_IntegerArithmetic_Original ==
    [][( /\ ret'.op = "eval_leaf"
         /\ IsLeaf(nodes, ret'.target)
         /\ IsLiteralOp(nodes[ret'.target].node.value)
         /\ Unwrap(nodes[ret'.target].node.value).kind = "Div"
               => Unwrap(nodes[ret'.target].node.value).rhs.value.int # 0 )
       => ReturnsExact(ret', Unwrap(nodes[ret'.target].node.value))]_vars

(***************************************************************************)
(* C19 (SpecArith), amended.  The same, for a Leaf that holds no valid     *)
(* cache and for operands whose exact result is an Integer (for Div: not   *)
(* INT_MIN / -1).                                                          *)
(***************************************************************************)
ExactInRange(kind, a, b) ==
    CASE kind = "Add" -> InRange(a + b)
      [] kind = "Sub" -> InRange(a - b)
      [] kind = "Mul" -> InRange(a * b)
      [] kind = "Div" -> ~(a = INT_MIN /\ b = -1)

C19_IntegerArithmetic ==
    [][( /\ ret'.op = "eval_leaf"
         /\ IsLeaf(nodes, ret'.target)
         /\ IsLiteralOp(nodes[ret'.target].node.value)
         /\ ~nodes[ret'.target].node.cache_valid
         /\ Unwrap(nodes[ret'.target].node.value).kind = "Div"
               => Unwrap(nodes[ret'.target].node.value).rhs.value.int # 0
         /\ ExactInRange(Unwrap(nodes[ret'.target].node.value).kind,
                         Unwrap(nodes[ret'.target].node.value).lhs.value.int,
                         Unwrap(nodes[ret'.target].node.value).rhs.value.int) )
       => ReturnsExact(ret', Unwrap(nodes[ret'.target].node.value))]_vars

\* -7 / 2 was evaluated to -3
C19_Witness ==
    /\ ret.op = "eval_leaf" /\ ret.status = "Ok" /\ ret.value = IntegerV(-3)
    /\ IsLeaf(nodes, ret.target)
    /\ nodes[ret.target].node.value = Some(InfixOp(Literal(IntegerV(-7)), Literal(IntegerV(2)), "Div"))

(***************************************************************************)
(* C20 (SpecArith).  After set_leaf_value(L, Integer(n)) on a Leaf L that  *)
(* holds no valid cache, eval_leaf(L) returns Integer(n), for every n      *)
(* offered, the ends of the Integer range among them.                      *)
(***************************************************************************)
C20_LiteralEvaluation ==
    [][( /\ ret.op = "set_leaf_value" /\ ret.status = "Ok"
         /\ ret.value.kind = "Integer"
         /\ ~nodes[ret.target].node.cache_valid
         /\ ret'.op = "eval_leaf" /\ ret'.target = ret.target )
       => (ret'.status = "Ok" /\ ret'.value = ret.value)]_vars

\* the smallest Integer was set and evaluated
C20_Witness ==
    /\ ret.op = "eval_leaf" /\ ret.status = "Ok" /\ ret.value = IntegerV(INT_MIN)
    /\ IsLeaf(nodes, ret.target)
    /\ nodes[ret.target].node.value = Some(Literal(IntegerV(INT_MIN)))

(***************************************************************************)
(* C21 (SpecConcat).  As claimed: eval_leaf of a Concat meta returns the   *)
(* Strings its elements yield, joined in order with nothing between them,  *)
(* when every element yields a String; and fails with InvalidConcatElement *)
(* when some element yields a value that is not a String.                  *)
(***************************************************************************)
\* what an element yields, read off the store: the value of a literal, and for
\* a reference to a Leaf its valid cache or else the literal it is set to;
\* NoValue for an element that is none of these
YieldOf(self, e) ==
    CASE e.tag = "Literal" -> e.value
      [] e.tag = "Reference" /\ IsLeaf(self, e.id) ->
            IF self[e.id].node.cache_valid /\ IsSome(self[e.id].node.cached)
            THEN Unwrap(self[e.id].node.cached)
            ELSE IF IsSome(self[e.id].node.value) /\ Unwrap(self[e.id].node.value).tag = "Literal"
                 THEN Unwrap(self[e.id].node.value).value
                 ELSE NoValue
      [] OTHER -> NoValue

\* the strings of a list of values, joined in order
RECURSIVE Joined(_)
Joined(vs) == IF vs = <<>> THEN <<>> ELSE Head(vs).str \o Joined(Tail(vs))

YieldsOf(self, es) == [i \in 1..Len(es) |-> YieldOf(self, es[i])]

IsConcat(self, m) == IsMeta(self, m) /\ self[m].node.data.tag = "Concat"

C21_ConcatEvaluation_Original ==
    [][(ret'.op = "eval_leaf" /\ IsConcat(nodes, ret'.target))
       => LET ys == YieldsOf(nodes, nodes[ret'.target].node.data.elements) IN
          /\ (\A i \in 1..Len(ys) : ys[i].kind = "String")
                => (ret'.status = "Ok" /\ ret'.value = StringV(Joined(ys)))
          /\ (\E i \in 1..Len(ys) : ys[i].kind \in {"Integer", "List"})
                => (ret'.status = "Err" /\ ret'.err.kind = "InvalidConcatElement")]_vars

(***************************************************************************)
(* C21 (SpecConcat), amended.  eval_leaf of a Concat meta returns the      *)
(* Strings its elements yield, joined in order with nothing between them,  *)
(* when every element yields a String; and fails with the error            *)
(* InvalidType when the first element that does not yield a String yields  *)
(* a value of another kind.                                                *)
(***************************************************************************)
C21_ConcatEvaluation ==
    [][(ret'.op = "eval_leaf" /\ IsConcat(nodes, ret'.target))
       => LET ys == YieldsOf(nodes, nodes[ret'.target].node.data.elements) IN
          /\ (\A i \in 1..Len(ys) : ys[i].kind = "String")
                => (ret'.status = "Ok" /\ ret'.value = StringV(Joined(ys)))
          /\ (\E i \in 1..Len(ys) :
                 /\ ys[i].kind \in {"Integer", "List"}
                 /\ \A j \in 1..(i - 1) : ys[j].kind = "String")
                => (ret'.status = "Err" /\ ret'.err.kind = "InvalidType")]_vars

\* a Concat meta over a literal and a reference to a Leaf was evaluated to the
\* two strings joined
C21_Witness ==
    /\ ret.op = "eval_leaf" /\ ret.status = "Ok"
    /\ IsConcat(nodes, ret.target)
    /\ ret.value = StringV(<<"a", "b">>)
    /\ Len(nodes[ret.target].node.data.elements) = 2
    /\ nodes[ret.target].node.data.elements[2].tag = "Reference"

(***************************************************************************)
(* C22 (SpecIdent).  eval_leaf of an uncached Leaf X whose expression is   *)
(* IdentRef(Y), Y a Leaf that yields a value v (its valid cache, or else   *)
(* the literal it is set to): if v is not a String the call fails with     *)
(* InvalidIdentRef(Y); if v is a String that get_node_from does not        *)
(* resolve from the root, with MissingPathDependency(v); and if it         *)
(* resolves to a Leaf Z other than X that yields a value, the call returns *)
(* the value Z yields.                                                     *)
(***************************************************************************)
C22_IdentRefIndirection ==
    [][( /\ ret'.op = "eval_leaf"
         /\ IsLeaf(nodes, ret'.target)
         /\ ~nodes[ret'.target].node.cache_valid
         /\ IsSome(nodes[ret'.target].node.value)
         /\ Unwrap(nodes[ret'.target].node.value).tag = "IdentRef"
         /\ IsLeaf(nodes, Unwrap(nodes[ret'.target].node.value).id) )
       => LET Y == Unwrap(nodes[ret'.target].node.value).id
              v == YieldOf(nodes, Reference(Y))
              Z == get_node_from(nodes, v.str, 0)
          IN  /\ v.kind \in {"Integer", "List"}
                    => (ret'.status = "Err" /\ ret'.err = ErrId("InvalidIdentRef", Y))
              /\ (v.kind = "String" /\ Z = None)
                    => (ret'.status = "Err" /\ ret'.err = ErrPath("MissingPathDependency", v.str))
              /\ ( /\ v.kind = "String" /\ IsSome(Z)
                   /\ Unwrap(Z) # ret'.target
                   /\ YieldOf(nodes, Reference(Unwrap(Z))).kind # "None" )
                    => (ret'.status = "Ok" /\ ret'.value = YieldOf(nodes, Reference(Unwrap(Z))))]_vars

\* X = IdentRef(Y), Y = "g.a" and Leaf "a" of Group "g" an Integer, three
\* different Leaves: eval_leaf(X) has returned the Integer
C22_Witness ==
    /\ ret.op = "eval_leaf" /\ ret.status = "Ok" /\ ret.value = IntegerV(MaxInt)
    /\ IsLeaf(nodes, ret.target)
    /\ IsSome(nodes[ret.target].node.value)
    /\ Unwrap(nodes[ret.target].node.value).tag = "IdentRef"
    /\ LET Y == Unwrap(nodes[ret.target].node.value).id IN
       /\ Y # ret.target
       /\ nodes[Y].node.value = Some(Literal(StringV(IdentPath)))
       /\ IsSome(get_node_from(nodes, IdentPath, 0))
       /\ Unwrap(get_node_from(nodes, IdentPath, 0)) \notin {Y, ret.target}
       /\ nodes[Unwrap(get_node_from(nodes, IdentPath, 0))].node.value = Some(Literal(IntegerV(MaxInt)))

(***************************************************************************)
(* C23 (SpecConstraint).  eval_leaf(id) fails with NotALeaf(id) when id    *)
(* names a Group, with MissingInfo(id) when id names a Leaf that holds no  *)
(* expression (neither editor was ever called on it), and with             *)
(* MetaType(id) when id names a Common or a Constraint meta.               *)
(***************************************************************************)
C23_EvalFailureByKind ==
    [][(ret'.op = "eval_leaf" /\ Exists(nodes, ret'.target))
       => LET n == nodes[ret'.target].node IN
          /\ n.tag = "Group" => (ret'.status = "Err" /\ ret'.err = ErrId("NotALeaf", ret'.target))
          /\ (n.tag = "Leaf" /\ n.value = None)
                => (ret'.status = "Err" /\ ret'.err = ErrId("MissingInfo", ret'.target))
          /\ (n.tag = "Meta" /\ n.data.tag \in {"Common", "Constraint"})
                => (ret'.status = "Err" /\ ret'.err = ErrId("MetaType", ret'.target))]_vars

\* a Constraint meta attached to a Leaf was evaluated, in a store where a
\* Leaf had been evaluated with success before
C23_Witness ==
    /\ ret.op = "eval_leaf" /\ ret.status = "Err" /\ ret.err.kind = "MetaType"
    /\ IsMeta(nodes, ret.target)
    /\ nodes[ret.target].node.data.tag = "Constraint"
    /\ \E l \in LeavesOf(nodes) :
          ret.target \in Range(nodes[l].node.metadata) /\ nodes[l].node.cache_valid

(***************************************************************************)
(* C24 (SpecConstraint).  set_leaf_value and set_leaf_expr fail with       *)
(* NotExists on an identity that is not in the store and with NotLeaf on a *)
(* Group or a Meta, and the store is then as it was; on a Leaf they        *)
(* succeed, and the Leaf's expression is then Literal(v) for               *)
(* set_leaf_value(v) and the expression passed for set_leaf_expr.          *)
(***************************************************************************)
C24_LeafEditing ==
    [][ /\ ret'.op \in EditOps =>
              /\ ~Exists(nodes, ret'.target)
                    => (ret'.status = "Err" /\ ret'.err.kind = "NotExists" /\ nodes' = nodes)
              /\ (IsGroup(nodes, ret'.target) \/ IsMeta(nodes, ret'.target))
                    => (ret'.status = "Err" /\ ret'.err.kind = "NotLeaf" /\ nodes' = nodes)
              /\ IsLeaf(nodes, ret'.target) => ret'.status = "Ok"
        /\ (ret'.op = "set_leaf_value" /\ IsLeaf(nodes, ret'.target))
              => nodes'[ret'.target].node.value = Some(Literal(ret'.value))
        /\ \A id \in LeavesOf(nodes) :
              SetLeafExpr(id, ConstraintExpr) => nodes'[id].node.value = Some(ConstraintExpr) ]_vars

\* an editor was refused on a Meta, in a store whose Leaf holds an expression
C24_Witness ==
    /\ ret.op \in EditOps /\ ret.status = "Err" /\ ret.err.kind = "NotLeaf"
    /\ IsMeta(nodes, ret.target)
    /\ \E l \in LeavesOf(nodes) : nodes[l].node.value = Some(ConstraintExpr)

(***************************************************************************)
(* C25 (SpecOpKind).  eval_leaf of a Leaf whose expression is an InfixOp on *)
(* two Integer literals returns a Value or an EvalError, whatever the      *)
(* operator and the operands, a zero divisor among them.  The code divides *)
(* without a test of the divisor and takes Neg for unreachable: those      *)
(* calls panic.                                                            *)
(***************************************************************************)
C25_TypedFailuresOnly ==
    ( /\ ret.op = "eval_leaf"
      /\ IsLeaf(nodes, ret.target)
      /\ IsSome(nodes[ret.target].node.value)
      /\ Unwrap(nodes[ret.target].node.value).tag = "InfixOp"
      /\ Unwrap(nodes[ret.target].node.value).lhs.tag = "Literal"
      /\ Unwrap(nodes[ret.target].node.value).lhs.value.kind = "Integer"
      /\ Unwrap(nodes[ret.target].node.value).rhs.tag = "Literal"
      /\ Unwrap(nodes[ret.target].node.value).rhs.value.kind = "Integer" )
    => ret.status \in {"Ok", "Err"}

(***************************************************************************)
(* C26 (SpecCommon).  A successful add of a Leaf, a Group or a Meta whose  *)
(* parent is a Common meta, by add_leaf_to, add_group_to or add_meta_to or *)
(* through the meta's handle, puts the new identity in a list of the       *)
(* meta's inner Group and in no list of a Group the meta is attached to;   *)
(* the new node's name then resolves to it from the Common meta, and not   *)
(* from the Group the meta is attached to.                                 *)
(***************************************************************************)
C26_CommonInnerLinking ==
    [][( /\ ret'.op \in AddOps \cup HandleAddOps
         /\ ret'.status = "Ok"
         /\ IsCommon(nodes, ret'.target) )
       => /\ Unwrap(ret'.id) \in Listed(nodes', nodes[ret'.target].node.data.inner)
          /\ get_node_from(nodes', ret'.name, ret'.target) = ret'.id
          /\ \A g \in DecoratedBy(nodes', ret'.target) :
                /\ Unwrap(ret'.id) \notin Listed(nodes', g)
                /\ get_node_from(nodes', ret'.name, g) # ret'.id]_vars

\* a Leaf was added under a Common meta of a Group that holds another node of
\* the same name
C26_Witness ==
    /\ ret.op \in {"add_leaf_to", "MetaHandle::add_leaf"} /\ ret.status = "Ok"
    /\ IsCommon(nodes, ret.target)
    /\ \E g \in DecoratedBy(nodes, ret.target) :
          /\ IsSome(get_node_from(nodes, ret.name, g))
          /\ get_node_from(nodes, ret.name, g) # ret.id
    /\ get_node_from(nodes, ret.name, ret.target) = ret.id

(***************************************************************************)
(* C27 (SpecCommon).  As claimed: every add whose parent is a Sum, Ident,  *)
(* Concat or Constraint meta, by add_leaf_to, add_group_to or add_meta_to  *)
(* or through the meta's handle, fails with ParentIsLeaf.                  *)
(***************************************************************************)
C27_NonCommonMetaParent_Original ==
    [][( /\ ret'.op \in AddOps \cup HandleAddOps
         /\ IsMeta(nodes, ret'.target)
         /\ ~IsCommon(nodes, ret'.target) )
       => (ret'.status = "Err" /\ ret'.err.kind = "ParentIsLeaf")]_vars

(***************************************************************************)
(* C27 (SpecCommon), amended.  An add whose parent is a Sum, Ident, Concat *)
(* or Constraint meta fails: through the meta's handle with InvalidParent, *)
(* and by add_leaf_to, add_group_to or add_meta_to with InvalidName for a  *)
(* name that contains the separator (for add_group_to, also the reserved   *)
(* name of the inner Group), else with InvalidParent for add_meta_to of a  *)
(* Common, else with ParentIsLeaf.                                         *)
(***************************************************************************)
C27_NonCommonMetaParent ==
    [][( /\ ret'.op \in AddOps \cup HandleAddOps
         /\ IsMeta(nodes, ret'.target)
         /\ ~IsCommon(nodes, ret'.target) )
       => /\ ret'.status = "Err"
          /\ ret'.op \in HandleAddOps => ret'.err.kind = "InvalidParent"
          /\ (ret'.op \in AddOps /\ Contains(ret'.name, SEP)) => ret'.err.kind = "InvalidName"
          /\ (ret'.op = "add_group_to" /\ ret'.name = COMMON_INNER) => ret'.err.kind = "InvalidName"
          /\ (ret'.op \in {"add_leaf_to", "add_group_to"} /\ ~Contains(ret'.name, SEP)
                 /\ ret'.name # COMMON_INNER)
                => ret'.err.kind = "ParentIsLeaf"
          /\ \A start \in CommonStarts :
                (AddMetaTo(ret'.name, ret'.target, start) /\ ~Contains(ret'.name, SEP))
                => ret'.err.kind = IF start.tag = "Common" THEN "InvalidParent" ELSE "ParentIsLeaf"]_vars

\* an add of a Leaf under a Constraint meta has failed with ParentIsLeaf
C27_Witness ==
    /\ ret.op = "add_leaf_to"
    /\ ret.status = "Err" /\ ret.err.kind = "ParentIsLeaf"
    /\ IsMeta(nodes, ret.target)
    /\ nodes[ret.target].node.data.tag = "Constraint"

(***************************************************************************)
(* C28 (Spec).  In every state, the parent field of a Meta is the identity *)
(* of the node whose metadata list holds the Meta, and never the Meta's    *)
(* own identity.  add_meta_to shadows parent_id with the new identity when *)
(* the parent is a Group or a Leaf, and stores that.                       *)
(***************************************************************************)
C28_MetaParentLink ==
    \A m \in MetasOf(nodes) :
        /\ nodes[m].node.parent # m
        /\ Exists(nodes, nodes[m].node.parent)
        /\ nodes[nodes[m].node.parent].node.tag \in {"Group", "Leaf"}
        /\ m \in Range(nodes[nodes[m].node.parent].node.metadata)

(***************************************************************************)
(* C29 (SpecLeaf).  Whenever eval_leaf of a Leaf returns Ok(v), the kind   *)
(* of v is the Leaf's value_kind.  The tag is computed when the expression *)
(* is set, from the kinds the referenced Leaves have then (String for      *)
(* every IdentRef), and the value when the Leaf is evaluated, or earlier   *)
(* when it comes from the cache: the two differ.                           *)
(***************************************************************************)
C29_ValueKindAgreement ==
    (ret.op = "eval_leaf" /\ ret.status = "Ok" /\ IsLeaf(nodes, ret.target))
    => ValueKindOf(ret.value) = nodes[ret.target].node.value_kind

(***************************************************************************)
(* C30 (SpecConstraint).  As claimed: on a Leaf with Constraint metas      *)
(* attached, set_leaf_value, set_leaf_expr and eval_leaf do what they do   *)
(* on the same store without those metas; and when set_leaf_value gives    *)
(* the Leaf an Integer that a Constraint does not allow, the call succeeds *)
(* and the eval_leaf that follows returns that Integer.                    *)
(***************************************************************************)
IsConstraint(self, m) == IsMeta(self, m) /\ self[m].node.data.tag = "Constraint"

\* a list of identities without the Constraint metas
RECURSIVE Unconstrained(_, _)
Unconstrained(self, ids) ==
    IF ids = <<>> THEN <<>>
    ELSE IF IsConstraint(self, Head(ids)) THEN Unconstrained(self, Tail(ids))
    ELSE <<Head(ids)>> \o Unconstrained(self, Tail(ids))

\* the store without its Constraint metas
WithoutConstraints(self) ==
    [i \in {j \in DOMAIN self : ~IsConstraint(self, j)} |->
        IF self[i].node.tag \in {"Leaf", "Group"}
        THEN [self[i] EXCEPT !.node.metadata = Unconstrained(self, self[i].node.metadata)]
        ELSE self[i]]

\* the three operations on Leaf ret'.target do what they do without the Constraints
ConstraintInert ==
    /\ ret'.op = "eval_leaf" =>
          ret' = EvalRet(ret'.target, eval_leaf(WithoutConstraints(nodes), ret'.target).res)
    /\ ret'.op = "set_leaf_value" =>
          /\ ret'.status = "Ok"
          /\ nodes'[ret'.target].node.value = Some(Literal(ret'.value))
    /\ ret'.op = "set_leaf_expr" =>
          /\ ret'.status = "Ok"
          /\ nodes'[ret'.target].node.value = Some(ConstraintExpr)

Resolved == get_node_from(nodes, ret.name, ret.target)

C32_DemonstrationSheet ==
    (ret.op = "eval_leaf" /\ IsLeaf(nodes, ret.target))
    => /\ ret.status = "Ok"
       /\ nodes[ret.target].name = ability_names[Len(ability_names)] => ret.value = IntegerV(1)

(***************************************************************************)
(* C33 (SpecLeaf).  Evaluated Leaves are frozen: once eval_leaf(L) has     *)
(* returned Ok(v) for a Leaf L, every later eval_leaf(L) returns Ok(v),    *)
(* whatever adds, set_leaf_value and set_leaf_expr calls (on L or on the   *)
(* Leaves L refers to) and evaluations happen in between.  Step by step:   *)
(* an eval_leaf(L) returning Ok(v) leaves L's cache valid and holding v;   *)
(* no call changes a valid cache; and eval_leaf of a Leaf with a valid     *)
(* cache returns Ok of the cached value.                                   *)
(***************************************************************************)
Frozen(self, L) ==
    IsLeaf(self, L) /\ self[L].node.cache_valid /\ IsSome(self[L].node.cached)

C33_EvaluatedLeavesFrozen ==
    [][/\ (ret'.op = "eval_leaf" /\ ret'.status = "Ok" /\ IsLeaf(nodes, ret'.target))
            => (Frozen(nodes', ret'.target) /\ nodes'[ret'.target].node.cached = Some(ret'.value))
       /\ \A L \in DOMAIN nodes :
            Frozen(nodes, L)
            => /\ Frozen(nodes', L)
               /\ nodes'[L].node.cached = nodes[L].node.cached
               /\ (ret'.op = "eval_leaf" /\ ret'.target = L)
                     => (ret'.status = "Ok" /\ ret'.value = Unwrap(nodes[L].node.cached))]_vars

\* eval_leaf has returned the value it returned before to a Leaf that has
\* since been given another literal, or an expression
C33_Witness ==
    /\ ret.op = "eval_leaf" /\ ret.status = "Ok"
    /\ Frozen(nodes, ret.target)
    /\ nodes[ret.target].node.value # Some(Literal(ret.value))
    /\ \A Y \in DOMAIN nodes :
          nodes[ret.target].node.value \in {Some(Reference(Y)), Some(IdentRef(Y))}
          => (IsLeaf(nodes, Y) /\ nodes[Y].node.value # Some(Literal(ret.value)))

(***************************************************************************)
(* C34 (SpecLeaf).  Reference coherence: for a Leaf B whose expression is  *)
(* Reference(A), A a Leaf, in every reachable state in which eval_leaf(A)  *)
(* and eval_leaf(B) both succeed they return equal values, also after A    *)
(* has been given a new value following an earlier evaluation of B.        *)
(***************************************************************************)
C34_ReferenceCoherence ==
    \A A \in DOMAIN nodes, B \in DOMAIN nodes :
        ( /\ IsLeaf(nodes, A) /\ IsLeaf(nodes, B)
          /\ nodes[B].node.value = Some(Reference(A))
          /\ eval_leaf(nodes, A).res.tag = "Ok"
          /\ eval_leaf(nodes, B).res.tag = "Ok" )
        => eval_leaf(nodes, A).res.value = eval_leaf(nodes, B).res.value

(***************************************************************************)
(* C35 (SpecCommon).  Link integrity: in every reachable state every       *)
(* identity in a children or metadata list names a node of the store; the  *)
(* root and the inner Groups of the Common metas appear in no list; and    *)
(* every other node appears in exactly one list, exactly once.             *)
(***************************************************************************)
\* the children and metadata lists of node i, by field
ListsOf(self, i) ==
    CASE self[i].node.tag = "Group" ->
           [children |-> self[i].node.children, metadata |-> self[i].node.metadata]
      [] self[i].node.tag = "Leaf" -> [children |-> <<>>, metadata |-> self[i].node.metadata]
      [] self[i].node.tag = "Meta" -> [children |-> <<>>, metadata |-> <<>>]

\* the places of the lists of the store: node, field and index
Places(self) ==
    {<<i, f, k>> \in (DOMAIN self) \X {"children", "metadata"} \X (1..(MaxId + 1)) :
        k <= Len(ListsOf(self, i)[f])}

PlacesOf(self, n) == {pl \in Places(self) : ListsOf(self, pl[1])[pl[2]][pl[3]] = n}

InnerGroups(self) ==
    {self[m].node.data.inner : m \in {x \in DOMAIN self : IsCommon(self, x)}}

C35_LinkIntegrity ==
    /\ \A pl \in Places(nodes) : Exists(nodes, ListsOf(nodes, pl[1])[pl[2]][pl[3]])
    /\ \A n \in DOMAIN nodes :
          Cardinality(PlacesOf(nodes, n)) = (IF n = 0 \/ n \in InnerGroups(nodes) THEN 0 ELSE 1)

\* a Common meta whose inner Group lists a node, and an add that was refused
C35_Witness ==
    /\ \E m \in DOMAIN nodes :
          /\ IsCommon(nodes, m)
          /\ Listed(nodes, nodes[m].node.data.inner) # {}
    /\ ret.op \in AddOps \cup HandleAddOps
    /\ ret.status = "Err"

(***************************************************************************)
(* C36 (SpecLeaf).  eval_leaf frame: an eval_leaf call that returns an     *)
(* EvalError leaves the whole store unchanged, every cache included; one   *)
(* that succeeds changes nothing but cached values and cache-valid flags:  *)
(* no node is added or removed, and no name, parent, list, expression or   *)
(* value_kind changes.                                                     *)
(***************************************************************************)
\* node i but for its cache
Uncached(self, i) ==
    IF self[i].node.tag \in {"Leaf", "Meta"}
    THEN [self[i] EXCEPT !.node.cached = None, !.node.cache_valid = FALSE]
    ELSE self[i]

C36_EvalLeafFrame ==
    [][ret'.op = "eval_leaf"
       => /\ next_id' = next_id
          /\ ret'.status = "Err" => nodes' = nodes
          /\ ret'.status = "Ok"
                => /\ DOMAIN nodes' = DOMAIN nodes
                   /\ \A i \in DOMAIN nodes : Uncached(nodes', i) = Uncached(nodes, i)]_vars

\* eval_leaf has returned an error in a store holding a valid cache
C36_Witness ==
    /\ ret.op = "eval_leaf" /\ ret.status = "Err"
    /\ \E L \in DOMAIN nodes : Frozen(nodes, L)

====
